---- MODULE Spec2Model ----
(***************************************************************************)
(* Wallpaper gallery backend: the storage selector (StorageFactory), the   *)
(* image validation of ImageProcessingService and the wallpaper ingestion  *)
(* of WallpaperController.create, with the tables they read and write.     *)
(***************************************************************************)
EXTENDS Integers, Sequences, FiniteSets, TLC

VARIABLES
    storage_providers,  \* rows of the storage_providers table
    instance,           \* StorageFactory.instance (the process-wide cache)
    nextInst,           \* identity of the next constructed service object
    queries,            \* configuration queries issued by getActiveService
    pc,                 \* position of every client / request handler
    pending,            \* configuration query in flight, per caller
    ret,                \* outcome of the latest completed selector call
    lastRet,            \* history: instance returned by the latest getActiveService
                        \*   call since the last reset()
    hist,               \* history: the first call after a reset() that found no
                        \*   query in flight
    cachedFallback,     \* history: the cached instance was built by the catch block
    stale,              \* history: the queries in flight that were issued before a
                        \*   reset(), and whether the cached instance came from one
    vImage,             \* validate: the image buffer given
    vOptions,           \* validate: the options given
    vResult,            \* validate: what the call produced
    req,                \* create: the request (file, body) of each upload
    svc,                \* create: storageService
    core,               \* create: the three uploads of Promise.all
    storage,            \* objects held by the storage providers
    wallpapers,         \* rows of the wallpapers table
    nextWallpaperId,    \* AUTO_INCREMENT of wallpapers.id
    wallpaper_categories,   \* rows of the wallpaper_categories table
    wallpaper_resolutions,  \* rows of the wallpaper_resolutions table, in insertion order
    wallpaperId,        \* create: wallpaperId
    resolutions,        \* create: resolutions (the Map of generateAllResolutions)
    resolutionData,     \* create: resolutionData
    response,           \* create: the response sent
    calls,              \* history: calls made by each upload, failures met
    cImage,             \* extractPrimaryColor: the image buffer given
    cResult,            \* extractPrimaryColor: what the call produced
    rSource,            \* resize: the image buffer given
    rArgs,              \* resize: width, height and options given
    rResult,            \* resize: what the call produced
    now,                \* Date.now(), in milliseconds
    slugs,              \* generateWithTimestamp: title given and slug returned, per upload
    uArgs,              \* getUrl: publicId and options given
    uResult,            \* getUrl: what the call produced
    favorites,          \* rows of the favorites table
    fav,                \* favorites: the request each session is serving
    favOps,             \* favorites: requests started so far
    downloads,          \* rows of the downloads table
    nextDownloadId,     \* AUTO_INCREMENT of downloads.id
    dl,                 \* downloads: the request each session is serving
    dlOps,              \* downloads: requests started so far
    del,                \* WallpaperController.delete: the request of each admin session
    deleted,            \* history: ids for which WallpaperModel.delete has completed
    users,              \* rows of the users table
    nextUserId,         \* AUTO_INCREMENT of users.id
    adm,                \* UserController: the request each admin session is serving
    admOps,             \* UserController: requests started so far
    gate                \* wallpaper routes: the request passing the middleware chain

selectorVars ==
    <<storage_providers, instance, nextInst, queries, pending, ret, lastRet, hist,
      cachedFallback, stale>>

validateVars == <<vImage, vOptions, vResult>>

\* the state of create other than storageService
ingestRest ==
    <<req, core, storage, wallpapers, nextWallpaperId, wallpaper_categories,
      wallpaper_resolutions, wallpaperId, resolutions, resolutionData, response, calls>>

ingestVars == <<svc, ingestRest>>

colorVars == <<cImage, cResult>>
resizeVars == <<rSource, rArgs, rResult>>
slugVars == <<now, slugs>>
urlVars == <<uArgs, uResult>>

\* the state of the calls of the image, slug and url functions checked alone
pureVars == <<colorVars, resizeVars, slugVars, urlVars>>

favVars == <<favorites, fav, favOps>>
downloadVars == <<downloads, nextDownloadId, dl, dlOps, del, deleted>>
userVars == <<users, nextUserId, adm, admOps>>
authVars == <<gate>>

\* the tables and requests of the favorite, download, user and route handlers
siteVars == <<favVars, downloadVars, userVars, authVars>>

vars == <<selectorVars, pc, validateVars, ingestVars, pureVars, siteVars>>

----------------------------------------------------------------------------
(* Bounds of the model *)

MaxQueries == 2
MaxInst == 3

MaxDim == 2
MaxGenFail == 1

MaxFavOps == 4
MaxDownloads == 3
MaxAdmOps == 3

Clients == {"c1", "c2"}
Uploads == {"u1"}
Procs == Clients \cup Uploads

----------------------------------------------------------------------------
(* storage_providers: schema.sql, and the configurations explored *)

ProviderRow(id, name, active, prio) ==
    [id |-> id, provider_name |-> name, is_active |-> active, priority |-> prio]

SeedProviders ==
    {ProviderRow(1, "cloudinary", 1, 1), ProviderRow(2, "s3", 0, 2)}

\* Row 1 is the seeded cloudinary row, active or not; row 2 is absent or any
\* s3 / local row of lower-or-equal or higher priority.
ProviderTables ==
    { {r1} \cup second :
        r1 \in {ProviderRow(1, "cloudinary", a, 1) : a \in {0, 1}},
        second \in {{}} \cup
            {{ProviderRow(2, n, a, p)} : n \in {"s3", "local"}, a \in {0, 1}, p \in {1, 2}} }

----------------------------------------------------------------------------
(* Service objects: identity plus implementing class *)

Null == [id |-> 0, kind |-> "null"]

Service(id, kind) == [id |-> id, kind |-> kind]

\* StorageFactory.createService: the class chosen for a provider name
createService(provider) ==
    CASE provider = "cloudinary" -> "CloudinaryService"
      [] provider = "s3" -> "S3Service"
      [] OTHER -> "CloudinaryService"

\* SELECT provider_name FROM storage_providers WHERE is_active = 1
\*   ORDER BY priority DESC LIMIT 1   (the possible result sets)
SelectActiveIgnoringActive(table) ==
    IF table = {} THEN {<<>>}
    ELSE {<<r.provider_name>> :
            r \in {x \in table : \A y \in table : y.priority <= x.priority}}

SelectActiveByPriority(table) ==
    LET act == {r \in table : r.is_active = 1}
    IN  IF act = {} THEN {<<>>}
        ELSE {<<r.provider_name>> :
                r \in {x \in act : \A y \in act : y.priority <= x.priority}}

\* SELECT provider_name FROM storage_providers WHERE id = ?
SelectById(table, providerId) ==
    IF \E r \in table : r.id = providerId
    THEN LET r == CHOOSE x \in table : x.id = providerId IN <<r.provider_name>>
    ELSE <<>>

NoPending == [state |-> "none", rows |-> <<>>]
NoRet == [op |-> "none", status |-> "none", inst |-> Null]
NoHist == [phase |-> "none", fb |-> FALSE, who |-> "nobody"]
NoStale == [reads |-> {}, cached |-> FALSE]

InFlight == {p \in Procs : pending[p].state # "none"}

----------------------------------------------------------------------------
(* StorageFactory.getActiveService *)

\* pc of a caller once the call has returned / while it is suspended
AfterCall(p) == IF p \in Uploads THEN "core" ELSE "idle"
WaitCall(p) == IF p \in Uploads THEN "resolving" ELSE "querying"
CanCall(p) == pc[p] = (IF p \in Uploads THEN "resolve" ELSE "idle")

\* const storageService = await StorageFactory.getActiveService()
Returned(p, inst) == IF p \in Uploads THEN [svc EXCEPT ![p] = inst] ELSE svc

\* history kept for the properties: the first call after a quiet reset()
HistBegin(p) ==
    IF hist.phase = "cleared" THEN [hist EXCEPT !.phase = "retry", !.who = p] ELSE hist

HistEnd(p) ==
    IF hist.phase = "retry" /\ hist.who = p THEN [hist EXCEPT !.phase = "retried"] ELSE hist

\* the statement after the query: rows.length > 0 ? rows[0].provider_name : 'cloudinary'
ProviderNameOf(rows) == IF Len(rows) > 0 THEN rows[1] ELSE "cloudinary"

\* First half: the cache test, and on a miss the query is issued.
getActiveService_beginNoCache(p) ==
    /\ CanCall(p)
    /\ queries < MaxQueries
    /\ \E outcome \in {"rows", "error"} :
         \E rows \in SelectActiveByPriority(storage_providers) :
           pending' = [pending EXCEPT ![p] =
               [state |-> outcome,
                rows |-> IF outcome = "rows" THEN rows ELSE <<>>]]
    /\ queries' = queries + 1
    /\ pc' = [pc EXCEPT ![p] = WaitCall(p)]
    /\ hist' = HistBegin(p)
    /\ UNCHANGED <<storage_providers, instance, nextInst, ret, lastRet, cachedFallback,
                   stale>>
    /\ UNCHANGED <<svc, validateVars, siteVars, pureVars, ingestRest>>

getActiveService_begin(p) ==
    /\ CanCall(p)
    /\ IF instance # Null
       THEN /\ ret' = [op |-> "getActive", status |-> "ok", inst |-> instance]
            /\ lastRet' = instance
            /\ pc' = [pc EXCEPT ![p] = AfterCall(p)]
            /\ svc' = Returned(p, instance)
            /\ UNCHANGED <<queries, pending>>
       ELSE /\ queries < MaxQueries
            /\ \E outcome \in {"rows", "error"} :
                 \E rows \in SelectActiveByPriority(storage_providers) :
                   pending' = [pending EXCEPT ![p] =
                       [state |-> outcome,
                        rows |-> IF outcome = "rows" THEN rows ELSE <<>>]]
            /\ queries' = queries + 1
            /\ pc' = [pc EXCEPT ![p] = WaitCall(p)]
            /\ UNCHANGED <<ret, lastRet, svc>>
    /\ hist' = HistBegin(p)
    /\ UNCHANGED <<storage_providers, instance, nextInst, cachedFallback, stale>>
    /\ UNCHANGED <<validateVars, siteVars, pureVars, ingestRest>>

\* the second half without the assignment to this.instance
getActiveService_endNoStore(p) ==
    /\ pending[p].state # "none"
    /\ LET failed == pending[p].state = "error"
           made == Service(nextInst,
                           IF failed THEN "CloudinaryService"
                           ELSE createService(ProviderNameOf(pending[p].rows)))
       IN  /\ instance' = instance
           /\ ret' = [op |-> "getActive", status |-> "ok", inst |-> made]
           /\ lastRet' = made
           /\ cachedFallback' = failed
           /\ svc' = Returned(p, made)
    /\ nextInst' = nextInst + 1
    /\ pending' = [pending EXCEPT ![p] = NoPending]
    /\ pc' = [pc EXCEPT ![p] = AfterCall(p)]
    /\ hist' = HistEnd(p)
    /\ stale' = [reads |-> stale.reads \ {p}, cached |-> p \in stale.reads]
    /\ UNCHANGED <<storage_providers, queries, validateVars, siteVars, pureVars, ingestRest>>

\* Second half: the query settles; the try block or the catch block runs.
getActiveService_end(p) ==
    /\ pending[p].state # "none"
    /\ LET failed == pending[p].state = "error"
           made == Service(nextInst,
                           IF failed THEN "CloudinaryService"
                           ELSE createService(ProviderNameOf(pending[p].rows)))
       IN  /\ instance' = made
           /\ ret' = [op |-> "getActive", status |-> "ok", inst |-> made]
           /\ lastRet' = made
           /\ cachedFallback' = failed
           /\ svc' = Returned(p, made)
    /\ nextInst' = nextInst + 1
    /\ pending' = [pending EXCEPT ![p] = NoPending]
    /\ pc' = [pc EXCEPT ![p] = AfterCall(p)]
    /\ hist' = HistEnd(p)
    /\ stale' = [reads |-> stale.reads \ {p}, cached |-> p \in stale.reads]
    /\ UNCHANGED <<storage_providers, queries, validateVars, siteVars, pureVars, ingestRest>>

----------------------------------------------------------------------------
(* StorageFactory.reset *)

HistReset ==
    IF InFlight = {}
    THEN [phase |-> "cleared", fb |-> (instance # Null /\ cachedFallback), who |-> "nobody"]
    ELSE NoHist

resetKeepsFallback ==
    /\ instance' = IF cachedFallback THEN instance ELSE Null
    /\ lastRet' = Null
    /\ hist' = HistReset
    /\ stale' = [reads |-> InFlight, cached |-> FALSE]
    /\ UNCHANGED <<storage_providers, nextInst, queries, pending, ret, cachedFallback, pc>>
    /\ UNCHANGED <<validateVars, siteVars, pureVars, ingestVars>>

reset ==
    /\ instance' = Null
    /\ lastRet' = Null
    /\ hist' = HistReset
    /\ stale' = [reads |-> InFlight, cached |-> FALSE]
    /\ UNCHANGED <<storage_providers, nextInst, queries, pending, ret, cachedFallback, pc>>
    /\ UNCHANGED <<validateVars, siteVars, pureVars, ingestVars>>

----------------------------------------------------------------------------
(* StorageFactory.getServiceById *)

getServiceByIdCaching(p, providerId) ==
    /\ pc[p] = "idle"
    /\ nextInst <= MaxInst
    /\ LET rows == SelectById(storage_providers, providerId)
       IN  IF Len(rows) = 0
           THEN /\ ret' = [op |-> "getById", status |-> "Storage provider not found",
                           inst |-> Null]
                /\ UNCHANGED <<nextInst, instance>>
           ELSE /\ ret' = [op |-> "getById", status |-> "ok",
                           inst |-> Service(nextInst, createService(rows[1]))]
                /\ nextInst' = nextInst + 1
                /\ instance' = Service(nextInst, createService(rows[1]))
    /\ UNCHANGED <<storage_providers, queries, pending, lastRet, hist, cachedFallback, pc,
                   stale>>
    /\ UNCHANGED <<validateVars, siteVars, pureVars, ingestVars>>

getServiceById(p, providerId) ==
    /\ pc[p] = "idle"
    /\ nextInst <= MaxInst
    /\ LET rows == SelectById(storage_providers, providerId)
       IN  IF Len(rows) = 0
           THEN /\ ret' = [op |-> "getById", status |-> "Storage provider not found",
                           inst |-> Null]
                /\ UNCHANGED nextInst
           ELSE /\ ret' = [op |-> "getById", status |-> "ok",
                           inst |-> Service(nextInst, createService(rows[1]))]
                /\ nextInst' = nextInst + 1
    /\ UNCHANGED <<storage_providers, instance, queries, pending, lastRet, hist,
                   cachedFallback, pc, stale>>
    /\ UNCHANGED <<validateVars, siteVars, pureVars, ingestVars>>

----------------------------------------------------------------------------
(* Administration of the storage_providers table (an administrative backend *)
(* switch, made directly in the database)                                   *)

UpdateProviders ==
    /\ \E t \in ProviderTables : t # storage_providers /\ storage_providers' = t
    /\ UNCHANGED <<instance, nextInst, queries, pending, ret, lastRet, hist,
                   cachedFallback, pc, stale>>
    /\ UNCHANGED <<validateVars, siteVars, pureVars, ingestVars>>

----------------------------------------------------------------------------
(* ImageProcessingService.validate *)

\* an optional numeric option: absent, or given with a value
NoOpt == [given |-> FALSE, val |-> 0]
Some(v) == [given |-> TRUE, val |-> v]

\* JavaScript truthiness of an optional number (undefined and 0 are falsy)
Truthy(o) == o.given /\ o.val # 0

\* an optional array option (an array, even an empty one, is truthy)
NoFormats == [given |-> FALSE, val |-> {}]
Formats(fs) == [given |-> TRUE, val |-> fs]

Image(decodable, format, width, height, length) ==
    [decodable |-> decodable, format |-> format, width |-> width, height |-> height,
     length |-> length]

Options(maxWidth, maxHeight, maxSize, allowedFormats) ==
    [maxWidth |-> maxWidth, maxHeight |-> maxHeight, maxSize |-> maxSize,
     allowedFormats |-> allowedFormats]

validate(image, options) ==
    IF ~image.decodable
    THEN \* sharp(imageBuffer).metadata() rejects: the catch block
         [threw |-> FALSE, valid |-> FALSE, errors |-> <<"Invalid image file">>]
    ELSE LET format == IF options.allowedFormats.given
                          /\ image.format \notin options.allowedFormats.val
                       THEN <<"Invalid format">> ELSE <<>>
             width == IF Truthy(options.maxWidth) /\ image.width # 0
                         /\ image.width > options.maxWidth.val
                      THEN <<"Width exceeds maximum">> ELSE <<>>
             height == IF Truthy(options.maxHeight) /\ image.height # 0
                          /\ image.height > options.maxHeight.val
                       THEN <<"Height exceeds maximum">> ELSE <<>>
             size == IF Truthy(options.maxSize) /\ image.length > options.maxSize.val
                     THEN <<"File size exceeds maximum">> ELSE <<>>
             errors == format \o width \o height \o size
         IN  [threw |-> FALSE, valid |-> (Len(errors) = 0), errors |-> errors]

NoResult == [threw |-> FALSE, valid |-> FALSE, errors |-> <<"no call">>]

\* the inputs explored: every image and every options object over small ranges
ImageFormats == {"jpeg", "png", "gif"}

Images ==
    {Image(TRUE, f, w, h, n) : f \in ImageFormats, w \in 1..MaxDim, h \in 1..MaxDim,
                               n \in 1..MaxDim}
    \cup {Image(FALSE, "", 0, 0, n) : n \in 0..MaxDim}

Limits == {NoOpt} \cup {Some(v) : v \in 0..MaxDim}

OptionSets ==
    {Options(mw, mh, ms, af) :
        mw \in Limits, mh \in Limits, ms \in Limits,
        af \in {NoFormats, Formats({}), Formats({"jpeg"}), Formats({"jpeg", "png"})}}

Validate ==
    /\ vResult = NoResult
    /\ vResult' = validate(vImage, vOptions)
    /\ UNCHANGED <<vImage, vOptions, selectorVars, pc, ingestVars, pureVars, siteVars>>

----------------------------------------------------------------------------
(* ImageProcessingService.extractPrimaryColor *)

\* A string is a sequence of one-character strings.
HexDigits == <<"0", "1", "2", "3", "4", "5", "6", "7", "8", "9", "a", "b", "c", "d", "e", "f">>

\* Number.prototype.toString(radix) of a non-negative integer, over `digits`
RECURSIVE toStringRadix(_, _)
toStringRadix(n, digits) ==
    IF n < Len(digits) THEN <<digits[n + 1]>>
    ELSE toStringRadix(n \div Len(digits), digits) \o <<digits[(n % Len(digits)) + 1]>>

\* String.prototype.padStart(targetLength, pad) for a one-character pad
RECURSIVE padStart(_, _, _)
padStart(str, targetLength, pad) ==
    IF Len(str) >= targetLength THEN str ELSE padStart(<<pad>> \o str, targetLength, pad)

\* Math.round of a non-negative mean given in halves (mean = halves / 2)
MathRound(halves) == (halves + 1) \div 2

\* the buffer as sharp sees it: whether it decodes, whether stats() succeeds,
\* and the mean of every channel, in halves
ColorImage(decodable, statsOk, means) ==
    [decodable |-> decodable, statsOk |-> statsOk, means |-> means]

Black == <<"#", "0", "0", "0", "0", "0", "0">>

Channel(mean) == padStart(toStringRadix(MathRound(mean), HexDigits), 2, "0")

\* the mutation of extractPrimaryColor without its catch block
extractPrimaryColorUncaught(image) ==
    IF ~image.decodable \/ ~image.statsOk \/ Len(image.means) < 3
    THEN [threw |-> TRUE, color |-> <<>>]
    ELSE [threw |-> FALSE,
          color |-> <<"#">> \o Channel(image.means[1]) \o Channel(image.means[2])
                           \o Channel(image.means[3])]

extractPrimaryColor(image) ==
    IF ~image.decodable \/ ~image.statsOk
    THEN \* sharp(imageBuffer).stats() rejects: the catch block
         [threw |-> FALSE, color |-> Black]
    ELSE IF Len(image.means) < 3
    THEN \* stats.channels[i] is undefined: the TypeError reaches the catch block
         [threw |-> FALSE, color |-> Black]
    ELSE [threw |-> FALSE,
          color |-> <<"#">> \o Channel(image.means[1]) \o Channel(image.means[2])
                           \o Channel(image.means[3])]

NoColor == [threw |-> FALSE, color |-> <<"no call">>]

\* channel means explored, in halves: 0, 0.5, 15.5, 127, 255 of 8-bit samples,
\* 256 and 65535 of 16-bit samples
MeanHalves == {0, 1, 31, 254, 510, 512, 131070}

ColorImages ==
    {ColorImage(TRUE, TRUE, <<r, g, b>>) : r \in MeanHalves, g \in MeanHalves, b \in MeanHalves}
    \cup {ColorImage(TRUE, TRUE, <<r, g, b, 510>>) : r \in {0, 510}, g \in {1}, b \in {31}}
    \cup {ColorImage(TRUE, TRUE, m) : m \in {<<254>>, <<254, 510>>}}
    \cup {ColorImage(TRUE, FALSE, <<>>), ColorImage(FALSE, FALSE, <<>>)}

ExtractPrimaryColor ==
    /\ cResult = NoColor
    /\ cResult' = extractPrimaryColor(cImage)
    /\ UNCHANGED <<cImage, resizeVars, slugVars, urlVars>>
    /\ UNCHANGED <<selectorVars, pc, validateVars, siteVars, ingestVars>>

----------------------------------------------------------------------------
(* ImageProcessingService.RESOLUTIONS and the names used by create *)

ResolutionConfig(name, width, height) == [name |-> name, width |-> width, height |-> height]

RESOLUTIONS ==
    << ResolutionConfig("1080p", 1920, 1080),
       ResolutionConfig("1440p", 2560, 1440),
       ResolutionConfig("4K", 3840, 2160),
       ResolutionConfig("5K", 5120, 2880),
       ResolutionConfig("Mobile HD", 1080, 1920),
       ResolutionConfig("Mobile 2K", 1440, 2560),
       ResolutionConfig("Tablet", 1536, 2048),
       ResolutionConfig("Thumbnail", 400, 300),
       ResolutionConfig("Medium", 800, 600) >>

\* a naming that keeps the first word only, as S3Service.generateResolutions
\* names its variants ('mobile', 'tablet')
LowerDashedFirstWord(name) ==
    CASE name = "1080p" -> "1080p"
      [] name = "1440p" -> "1440p"
      [] name = "4K" -> "4k"
      [] name = "5K" -> "5k"
      [] name = "Mobile HD" -> "mobile"
      [] name = "Mobile 2K" -> "mobile"
      [] name = "Tablet" -> "tablet"
      [] name = "Thumbnail" -> "thumbnail"
      [] name = "Medium" -> "medium"
      [] OTHER -> name

\* name.toLowerCase().replace(/\s+/g, '-')
LowerDashed(name) ==
    CASE name = "1080p" -> "1080p"
      [] name = "1440p" -> "1440p"
      [] name = "4K" -> "4k"
      [] name = "5K" -> "5k"
      [] name = "Mobile HD" -> "mobile-hd"
      [] name = "Mobile 2K" -> "mobile-2k"
      [] name = "Tablet" -> "tablet"
      [] name = "Thumbnail" -> "thumbnail"
      [] name = "Medium" -> "medium"
      [] OTHER -> name

\* ImageProcessingService.generateAllResolutions(buffer, false): the entries
\* of the Map in insertion order, an entry whose resize throws being skipped
generateAllResolutionsReversed(failing) ==
    LET n == Len(RESOLUTIONS)
        rev == [i \in 1..n |-> RESOLUTIONS[n + 1 - i]]
    IN  SelectSeq(rev, LAMBDA r : r.name \notin failing)

\* the loop without its try/catch: it ends at the first resize that throws
generateAllResolutionsStopAtFailure(failing) ==
    LET bad == {i \in 1..Len(RESOLUTIONS) : RESOLUTIONS[i].name \in failing}
    IN  IF bad = {} THEN RESOLUTIONS
        ELSE SubSeq(RESOLUTIONS, 1, (CHOOSE i \in bad : \A j \in bad : i <= j) - 1)

\* the call with includeOriginal = true: the 'original' entry comes first
generateAllResolutionsWithOriginal(failing) ==
    <<ResolutionConfig("original", 4000, 3000)>>
       \o SelectSeq(RESOLUTIONS, LAMBDA r : r.name \notin failing)

generateAllResolutions(failing) ==
    SelectSeq(RESOLUTIONS, LAMBDA r : r.name \notin failing)

ResolutionNames == {RESOLUTIONS[i].name : i \in 1..Len(RESOLUTIONS)}

\* the sets of entries whose resize may fail in one call
FailingSets == {f \in SUBSET ResolutionNames : Cardinality(f) <= MaxGenFail}

----------------------------------------------------------------------------
(* Storage providers: IStorageService.upload *)

\* key of the object written for (folder, filename)
StoredObject(service, folder, filename) ==
    [kind |-> service.kind, folder |-> folder, filename |-> filename]

\* the url of the UploadResult
UrlOf(service, folder, filename) == <<service.kind, folder, filename>>

CoreUploads == {"original", "thumbnail", "medium"}

CoreFolder(k) ==
    CASE k = "original" -> "wallpapers/original"
      [] k = "thumbnail" -> "wallpapers/thumbnails"
      [] k = "medium" -> "wallpapers/medium"

CoreFilename(slug, k) ==
    CASE k = "original" -> <<slug>>
      [] k = "thumbnail" -> <<slug, "-thumb">>
      [] k = "medium" -> <<slug, "-medium">>

SweepFolder == "wallpapers/resolutions"
SweepFilename(slug, name) == <<slug, "-", LowerDashed(name)>>

----------------------------------------------------------------------------
(* WallpaperModel / WallpaperResolutionModel: the queries used *)

NotFound == [found |-> FALSE, row |-> [id |-> 0], categories |-> {}, resolutions |-> <<>>]

\* WallpaperModel.getCategories
getCategories(id) == {l.category_id : l \in {x \in wallpaper_categories : x.wallpaper_id = id}}

\* the rows of wallpaper_resolutions of one wallpaper, in insertion order
RowsOf(id) == SelectSeq(wallpaper_resolutions, LAMBDA r : r.wallpaper_id = id)

RECURSIVE InsertByWidth(_, _)
InsertByWidth(sorted, r) ==
    IF sorted = <<>> THEN <<r>>
    ELSE IF Head(sorted).width >= r.width
         THEN <<Head(sorted)>> \o InsertByWidth(Tail(sorted), r)
         ELSE <<r>> \o sorted

\* ORDER BY width DESC
RECURSIVE OrderByWidthDesc(_)
OrderByWidthDesc(rows) ==
    IF rows = <<>> THEN <<>>
    ELSE InsertByWidth(OrderByWidthDesc(SubSeq(rows, 1, Len(rows) - 1)), rows[Len(rows)])

\* WallpaperModel.getResolutions
getResolutions(id) == OrderByWidthDesc(RowsOf(id))

\* findById without the is_active = 1 condition
findByIdAnyStatus(id) ==
    IF \E w \in wallpapers : w.id = id
    THEN [found |-> TRUE,
          row |-> CHOOSE w \in wallpapers : w.id = id,
          categories |-> getCategories(id),
          resolutions |-> getResolutions(id)]
    ELSE NotFound

\* WallpaperModel.findById: the active row with its categories and resolutions
findById(id) ==
    IF \E w \in wallpapers : w.id = id /\ w.is_active = 1
    THEN [found |-> TRUE,
          row |-> CHOOSE w \in wallpapers : w.id = id /\ w.is_active = 1,
          categories |-> getCategories(id),
          resolutions |-> getResolutions(id)]
    ELSE NotFound

----------------------------------------------------------------------------
(* ImageProcessingService.resize *)

\* an optional string option
NoStr == [given |-> FALSE, val |-> ""]
Str(v) == [given |-> TRUE, val |-> v]

SourceImage(decodable, format, width, height) ==
    [decodable |-> decodable, format |-> format, width |-> width, height |-> height]

ResizeArgs(width, height, format, fit) ==
    [width |-> width, height |-> height, format |-> format, fit |-> fit]

\* the nearest integer to a / b, at least 1 (a size in pixels)
RoundDiv(a, b) == LET q == (2 * a + b) \div (2 * b) IN IF q < 1 THEN 1 ELSE q

Min(a, b) == IF a <= b THEN a ELSE b

\* sharp(...).resize(width, height, {fit, position: 'center'}): the size of the
\* output for a source of sw x sh pixels
Scaled(sw, sh, width, height, byWidth) ==
    IF byWidth THEN <<width, RoundDiv(sh * width, sw)>>
    ELSE <<RoundDiv(sw * height, sh), height>>

SharpResize(sw, sh, width, height, fit) ==
    CASE fit = "cover" ->
            \* scaled up or down until both sides cover the target, then cropped
            LET sc == Scaled(sw, sh, width, height, sw * height <= sh * width)
            IN  <<Min(sc[1], width), Min(sc[2], height)>>
      [] fit = "outside" -> Scaled(sw, sh, width, height, sw * height <= sh * width)
      [] fit = "inside" -> Scaled(sw, sh, width, height, sw * height >= sh * width)
      [] fit = "contain" -> <<width, height>>   \* embedded in a canvas of the target size
      [] fit = "fill" -> <<width, height>>      \* stretched to the target size

\* const fit = options?.fit || 'cover'
DefaultFitInside == "inside"
DefaultFit == "cover"

\* const format = options?.format || 'jpeg'
DefaultFormat == "jpeg"

OutputFormats == {"jpeg", "png", "webp"}

resize(source, args) ==
    LET format == IF args.format.given /\ args.format.val # "" THEN args.format.val
                  ELSE DefaultFormat
        fit == IF args.fit.given /\ args.fit.val # "" THEN args.fit.val ELSE DefaultFit
    IN  IF ~source.decodable
        THEN \* sharpInstance.toBuffer() rejects
             [threw |-> TRUE, error |-> "Input buffer contains unsupported image format",
              width |-> 0, height |-> 0, format |-> ""]
        ELSE LET size == SharpResize(source.width, source.height, args.width, args.height, fit)
             IN  [threw |-> FALSE, error |-> "",
                  width |-> size[1], height |-> size[2],
                  \* with none of jpeg(), png(), webp() applied the output keeps
                  \* the format of the input
                  format |-> IF format \in OutputFormats THEN format ELSE source.format]

NoVariant == [threw |-> FALSE, error |-> "no call", width |-> 0, height |-> 0, format |-> ""]

\* the inputs explored: square, portrait, landscape and panoramic sources,
\* larger and smaller than the targets
SourceSizes ==
    {<<1, 1>>, <<500, 500>>, <<200, 100>>, <<1080, 1920>>, <<4000, 3000>>, <<10000, 1000>>,
     <<1000, 10000>>}

SourceImages ==
    {SourceImage(TRUE, f, sz[1], sz[2]) : f \in {"jpeg", "gif"}, sz \in SourceSizes}
    \cup {SourceImage(FALSE, "", 0, 0)}

ResizeArgSets ==
    {ResizeArgs(RESOLUTIONS[i].width, RESOLUTIONS[i].height, f, fit) :
        i \in 1..Len(RESOLUTIONS),
        f \in {NoStr} \cup {Str(v) : v \in {"jpeg", "png", "webp", "gif", "tiff"}},
        fit \in {NoStr} \cup {Str(v) : v \in {"cover", "contain", "fill", "inside", "outside"}}}

Resize ==
    /\ rResult = NoVariant
    /\ rResult' = resize(rSource, rArgs)
    /\ UNCHANGED <<rSource, rArgs, colorVars, slugVars, urlVars>>
    /\ UNCHANGED <<selectorVars, pc, validateVars, siteVars, ingestVars>>

----------------------------------------------------------------------------
(* SlugUtil.generate, SlugUtil.generateWithTimestamp *)

MaxClock == 2

Namers == {"n1", "n2"}

toLowerCase(c) == IF c = "A" THEN "a" ELSE IF c = "B" THEN "b" ELSE c

IsSpace(c) == c = " "
IsWord(c) == c \in {"a", "b", "A", "B", "7", "_"}

\* String.prototype.trim
RECURSIVE trim(_)
trim(str) ==
    IF str = <<>> THEN str
    ELSE IF IsSpace(Head(str)) THEN trim(Tail(str))
    ELSE IF IsSpace(str[Len(str)]) THEN trim(SubSeq(str, 1, Len(str) - 1))
    ELSE str

\* .replace(/[^\w\s-]/g, '')
RemoveSpecial(str) == SelectSeq(str, LAMBDA c : IsWord(c) \/ IsSpace(c) \/ c = "-")

IsSeparator(c) == IsSpace(c) \/ c = "_" \/ c = "-"

\* .replace(/[\s_-]+/g, '-')
RECURSIVE Hyphenate(_)
Hyphenate(str) ==
    IF str = <<>> THEN str
    ELSE IF IsSeparator(Head(str))
         THEN IF Len(str) > 1 /\ IsSeparator(str[2])
              THEN Hyphenate(Tail(str))
              ELSE <<"-">> \o Hyphenate(Tail(str))
         ELSE <<Head(str)>> \o Hyphenate(Tail(str))

\* .replace(/^-+|-+$/g, '')
RECURSIVE StripHyphens(_)
StripHyphens(str) ==
    IF str = <<>> THEN str
    ELSE IF Head(str) = "-" THEN StripHyphens(Tail(str))
    ELSE IF str[Len(str)] = "-" THEN StripHyphens(SubSeq(str, 1, Len(str) - 1))
    ELSE str

generate(text) ==
    StripHyphens(Hyphenate(RemoveSpecial(trim([i \in 1..Len(text) |-> toLowerCase(text[i])]))))

Base36Digits ==
    <<"0", "1", "2", "3", "4", "5", "6", "7", "8", "9", "a", "b", "c", "d", "e", "f", "g",
      "h", "i", "j", "k", "l", "m", "n", "o", "p", "q", "r", "s", "t", "u", "v", "w", "x",
      "y", "z">>

\* `${baseSlug}-${Date.now().toString(36)}`, Date.now() being `time`
SlugWithTimestamp(text, time) == generate(text) \o <<"-">> \o toStringRadix(time, Base36Digits)

NoSlug == [called |-> FALSE, title |-> <<>>, slug |-> <<>>]

\* the titles explored
Titles == { <<"A", " ", "b">>, <<"a", "-", "b">>, <<" ", "a", "!", "b", "_">>, <<"a", "b">> }

\* one upload asks for its slug (category.controller.ts line 463)
generateWithTimestamp(n) ==
    /\ ~slugs[n].called
    /\ \E title \in Titles :
         slugs' = [slugs EXCEPT ![n] =
                     [called |-> TRUE, title |-> title, slug |-> SlugWithTimestamp(title, now)]]
    /\ UNCHANGED <<now, colorVars, resizeVars, urlVars>>
    /\ UNCHANGED <<selectorVars, pc, validateVars, siteVars, ingestVars>>

\* the clock advances by a millisecond
Tick ==
    /\ now < MaxClock
    /\ now' = now + 1
    /\ UNCHANGED <<slugs, colorVars, resizeVars, urlVars>>
    /\ UNCHANGED <<selectorVars, pc, validateVars, siteVars, ingestVars>>

----------------------------------------------------------------------------
(* S3Service.getUrl *)

\* the S3Service object: bucketName and region read by the constructor
S3Config(bucketName, region) == [bucketName |-> bucketName, region |-> region]

\* `https://${this.bucketName}.s3.${this.region}.amazonaws.com/${key}`
S3Url(service, key) ==
    <<"https://", service.bucketName, ".s3.", service.region, ".amazonaws.com/", key>>

\* the url of the UploadResult of S3Service.upload, whose publicId is the key
S3Service_uploadUrl(service, key) == S3Url(service, key)

UrlOptions(width, height, quality, format) ==
    [width |-> width, height |-> height, quality |-> quality, format |-> format]

S3Service_getUrlTransforming(service, publicId, options) ==
    IF Truthy(options.width)
    THEN S3Url(service, publicId) \o <<"?w=", options.width.val>>
    ELSE S3Url(service, publicId)

S3Service_getUrl(service, publicId, options) == S3Url(service, publicId)

UrlArgs(service, publicId, options) ==
    [service |-> service, publicId |-> publicId, options |-> options]

NoUrl == <<"no call">>

S3Configs == {S3Config("", "us-east-1"), S3Config("walls", "eu-west-1")}

PublicIds == {"wallpapers/original/a-b-1", "wallpapers/resolutions/a-b-1-4k"}

UrlOptionSets ==
    {UrlOptions(w, h, q, f) :
        w \in {NoOpt, Some(0), Some(1920)}, h \in {NoOpt, Some(0), Some(1080)},
        q \in {NoOpt, Some(80)}, f \in {NoStr, Str("webp")}}

GetUrl ==
    /\ uResult = NoUrl
    /\ uResult' = S3Service_getUrl(uArgs.service, uArgs.publicId, uArgs.options)
    /\ UNCHANGED <<uArgs, colorVars, resizeVars, slugVars>>
    /\ UNCHANGED <<selectorVars, pc, validateVars, siteVars, ingestVars>>

----------------------------------------------------------------------------
(* WallpaperController.create *)

MaxImageWidth == 10000
MaxImageHeight == 10000
MaxFileSizeDefault == 10485760

\* the options create passes to validate
ControllerOptions ==
    Options(Some(MaxImageWidth), Some(MaxImageHeight), Some(MaxFileSizeDefault),
            Formats({"jpeg", "jpg", "png", "webp"}))

\* requests that reach create behind upload.single and validateWallpaper: the
\* file may be missing; category_ids is a non-empty array
UploadImages ==
    { Image(TRUE, "jpeg", 4000, 3000, 2097152),
      Image(TRUE, "jpeg", 10001, 3000, 2097152),
      Image(TRUE, "gif", 10001, 10001, 2097152),
      Image(FALSE, "", 0, 0, 1024) }

Requests ==
    {[hasFile |-> f, image |-> i, categoryIds |-> c, title |-> "Sunset Over Hills"] :
        f \in BOOLEAN, i \in UploadImages, c \in {<<1>>, <<1, 2>>}}

NoRequest == [hasFile |-> FALSE, image |-> Image(FALSE, "", 0, 0, 0), categoryIds |-> <<>>,
              title |-> ""]

\* SlugUtil.generateWithTimestamp(title), for the one title used
SlugOf(title) == "sunset-over-hills-t"

NoResponse == [status |-> 0, errors |-> <<>>, error |-> <<>>, data |-> NotFound]
Rejected(errors) == [status |-> 400, errors |-> errors, error |-> <<>>, data |-> NotFound]
MissingFile == [status |-> 400, errors |-> <<>>, error |-> <<"Image file is required">>,
                data |-> NotFound]
Failed(message) == [status |-> 500, errors |-> <<>>, error |-> message, data |-> NotFound]
Created(data) == [status |-> 201, errors |-> <<>>, error |-> <<>>, data |-> data]

NoCalls == [generateAll |-> 0, sweepUploads |-> 0, genFailed |-> {}, sweepFailed |-> {}]

Send(u, r) == response' = [response EXCEPT ![u] = r]
Goto(u, l) == pc' = [pc EXCEPT ![u] = l]

\* lines 420-456: the checks made before any work
BeginOutcomeNoValidation(rq) ==
    IF ~rq.hasFile THEN [next |-> "done", response |-> MissingFile]
    ELSE [next |-> "resolve", response |-> NoResponse]

BeginOutcome(rq) ==
    IF ~rq.hasFile THEN [next |-> "done", response |-> MissingFile]
    ELSE LET validation == validate(rq.image, ControllerOptions)
         IN  IF ~validation.valid
             THEN [next |-> "done", response |-> Rejected(validation.errors)]
             ELSE [next |-> "resolve", response |-> NoResponse]

\* the request arrives; validate, getMetadata, extractPrimaryColor and
\* generateWithTimestamp run (lines 418-463)
create_begin(u) ==
    /\ pc[u] = "idle"
    /\ \E rq \in Requests :
         /\ req' = [req EXCEPT ![u] = rq]
         /\ Send(u, BeginOutcome(rq).response)
         /\ Goto(u, BeginOutcome(rq).next)
    /\ UNCHANGED <<selectorVars, validateVars, siteVars, pureVars, svc, core, storage, wallpapers,
                   nextWallpaperId, wallpaper_categories, wallpaper_resolutions,
                   wallpaperId, resolutions, resolutionData, calls>>

\* generateThumbnail and generateMedium, then the three uploads are issued
\* (lines 469-486); a resize that throws ends the request in the catch block
create_core(u) ==
    /\ pc[u] = "core"
    /\ \E resized \in BOOLEAN :
         IF resized
         THEN /\ core' = [core EXCEPT ![u] = [k \in CoreUploads |-> "inflight"]]
              /\ Goto(u, "awaitCore")
              /\ UNCHANGED response
         ELSE /\ Send(u, Failed(<<"resize failed">>))
              /\ Goto(u, "done")
              /\ UNCHANGED core
    /\ UNCHANGED <<selectorVars, validateVars, siteVars, pureVars, req, svc, storage, wallpapers,
                   nextWallpaperId, wallpaper_categories, wallpaper_resolutions,
                   wallpaperId, resolutions, resolutionData, calls>>

\* How Promise.all settles when upload k settles with `ok`, the others being
\* as in `status`: rejected by the first failure, fulfilled by the last success.
AllSettledOutcome(status, k, ok) ==
    IF \A j \in CoreUploads \ {k} : status[j] \in {"ok", "failed"}
    THEN "fulfilled" ELSE "pending"

PromiseRaceOutcome(status, k, ok) == IF ok THEN "fulfilled" ELSE "rejected"

PromiseAllOutcome(status, k, ok) ==
    IF ~ok THEN "rejected"
    ELSE IF \A j \in CoreUploads \ {k} : status[j] = "ok" THEN "fulfilled"
    ELSE "pending"

\* one of the three uploads settles (storageService.upload of lines 474-485)
upload_settle(u, k) ==
    /\ core[u][k] = "inflight"
    /\ \E ok \in BOOLEAN :
         /\ core' = [core EXCEPT ![u][k] = IF ok THEN "ok" ELSE "failed"]
         /\ storage' = IF ok
                       THEN storage \cup {StoredObject(svc[u], CoreFolder(k),
                                             CoreFilename(SlugOf(req[u].title), k))}
                       ELSE storage
         /\ IF pc[u] = "awaitCore"
            THEN LET outcome == PromiseAllOutcome(core[u], k, ok)
                 IN  CASE outcome = "rejected" ->
                            /\ Send(u, Failed(<<"upload failed", k>>))
                            /\ Goto(u, "done")
                       [] outcome = "fulfilled" ->
                            /\ Goto(u, "insert")
                            /\ UNCHANGED response
                       [] OTHER -> UNCHANGED <<pc, response>>
            ELSE UNCHANGED <<pc, response>>
    /\ UNCHANGED <<selectorVars, validateVars, siteVars, pureVars, req, svc, wallpapers,
                   nextWallpaperId, wallpaper_categories, wallpaper_resolutions,
                   wallpaperId, resolutions, resolutionData, calls>>

\* the row written by WallpaperModel.create (lines 489-505)
WallpaperRow(u, id) ==
    LET slug == SlugOf(req[u].title)
    IN  [id |-> id, slug |-> slug,
         original_url |-> UrlOf(svc[u], CoreFolder("original"), CoreFilename(slug, "original")),
         thumbnail_url |-> UrlOf(svc[u], CoreFolder("thumbnail"), CoreFilename(slug, "thumbnail")),
         medium_url |-> UrlOf(svc[u], CoreFolder("medium"), CoreFilename(slug, "medium")),
         storage_provider_id |-> 1,
         download_count |-> 0,
         favorite_count |-> 0,
         is_active |-> 1]

\* the insert with a compensation: a failed insert deletes the uploaded assets
create_insertCompensating(u) ==
    /\ pc[u] = "insert"
    /\ \E written \in BOOLEAN :
         IF written
         THEN /\ wallpapers' = wallpapers \cup {WallpaperRow(u, nextWallpaperId)}
              /\ wallpaperId' = [wallpaperId EXCEPT ![u] = nextWallpaperId]
              /\ nextWallpaperId' = nextWallpaperId + 1
              /\ Goto(u, "categories")
              /\ UNCHANGED <<response, storage>>
         ELSE /\ Send(u, Failed(<<"insert failed">>))
              /\ Goto(u, "done")
              /\ storage' = {}
              /\ UNCHANGED <<wallpapers, wallpaperId, nextWallpaperId>>
    /\ UNCHANGED <<selectorVars, validateVars, siteVars, pureVars, req, svc, core,
                   wallpaper_categories, wallpaper_resolutions,
                   resolutions, resolutionData, calls>>

\* await WallpaperModel.create(...)
create_insert(u) ==
    /\ pc[u] = "insert"
    /\ \E written \in BOOLEAN :
         IF written
         THEN /\ wallpapers' = wallpapers \cup {WallpaperRow(u, nextWallpaperId)}
              /\ wallpaperId' = [wallpaperId EXCEPT ![u] = nextWallpaperId]
              /\ nextWallpaperId' = nextWallpaperId + 1
              /\ Goto(u, "categories")
              /\ UNCHANGED response
         ELSE /\ Send(u, Failed(<<"insert failed">>))
              /\ Goto(u, "done")
              /\ UNCHANGED <<wallpapers, wallpaperId, nextWallpaperId>>
    /\ UNCHANGED <<selectorVars, validateVars, siteVars, pureVars, req, svc, core, storage,
                   wallpaper_categories, wallpaper_resolutions,
                   resolutions, resolutionData, calls>>

\* await WallpaperModel.addCategories(wallpaperId, categoryIds) (lines 508-510)
create_categories(u) ==
    /\ pc[u] = "categories"
    /\ \E written \in BOOLEAN :
         IF written
         THEN /\ wallpaper_categories' = wallpaper_categories \cup
                    {[wallpaper_id |-> wallpaperId[u], category_id |-> req[u].categoryIds[i]] :
                        i \in 1..Len(req[u].categoryIds)}
              /\ Goto(u, "generate")
              /\ UNCHANGED response
         ELSE /\ Send(u, Failed(<<"addCategories failed">>))
              /\ Goto(u, "done")
              /\ UNCHANGED wallpaper_categories
    /\ UNCHANGED <<selectorVars, validateVars, siteVars, pureVars, req, svc, core, storage, wallpapers,
                   nextWallpaperId, wallpaper_resolutions, wallpaperId,
                   resolutions, resolutionData, calls>>

\* await ImageProcessingService.generateAllResolutions(req.file.buffer, false)
create_generate(u) ==
    /\ pc[u] = "generate"
    /\ \E failing \in FailingSets :
         /\ resolutions' = [resolutions EXCEPT ![u] = generateAllResolutions(failing)]
         /\ calls' = [calls EXCEPT ![u].generateAll = @ + 1, ![u].genFailed = failing]
    /\ resolutionData' = [resolutionData EXCEPT ![u] = <<>>]
    /\ Goto(u, "sweep")
    /\ UNCHANGED <<selectorVars, validateVars, siteVars, pureVars, req, svc, core, storage, wallpapers,
                   nextWallpaperId, wallpaper_categories, wallpaper_resolutions,
                   wallpaperId, response>>

\* the row pushed for a generated entry (lines 522-530)
ResolutionRow(u, processed) ==
    [wallpaper_id |-> wallpaperId[u], width |-> processed.width, height |-> processed.height,
     resolution_name |-> processed.name,
     url |-> UrlOf(svc[u], SweepFolder, SweepFilename(SlugOf(req[u].title), processed.name)),
     is_original |-> IF processed.name = "original" THEN 1 ELSE 0]

\* the row pushed after the loop (lines 534-542)
OriginalRow(u) ==
    [wallpaper_id |-> wallpaperId[u], width |-> req[u].image.width,
     height |-> req[u].image.height, resolution_name |-> "Original",
     url |-> UrlOf(svc[u], CoreFolder("original"),
                   CoreFilename(SlugOf(req[u].title), "original")),
     is_original |-> 1]

\* one iteration of the loop of lines 516-531: the upload settles; a rejected
\* upload is thrown to the catch block of create
create_sweep(u) ==
    /\ pc[u] = "sweep"
    /\ Len(resolutionData[u]) < Len(resolutions[u])
    /\ LET processed == resolutions[u][Len(resolutionData[u]) + 1]
       IN  \E ok \in BOOLEAN :
             /\ calls' = [calls EXCEPT ![u].sweepUploads = @ + 1,
                             ![u].sweepFailed = IF ok THEN @ ELSE @ \cup {processed.name}]
             /\ IF ok
                THEN /\ storage' = storage \cup
                           {StoredObject(svc[u], SweepFolder,
                                         SweepFilename(SlugOf(req[u].title), processed.name))}
                     /\ resolutionData' = [resolutionData EXCEPT ![u] =
                                               Append(@, ResolutionRow(u, processed))]
                     /\ UNCHANGED <<pc, response>>
                ELSE /\ Send(u, Failed(<<"upload failed", processed.name>>))
                     /\ Goto(u, "done")
                     /\ UNCHANGED <<storage, resolutionData>>
    /\ UNCHANGED <<selectorVars, validateVars, siteVars, pureVars, req, svc, core, wallpapers,
                   nextWallpaperId, wallpaper_categories, wallpaper_resolutions,
                   wallpaperId, resolutions>>

\* await WallpaperResolutionModel.bulkCreate(resolutionData) (lines 533-544)
create_bulkCreate(u) ==
    /\ pc[u] = "sweep"
    /\ Len(resolutionData[u]) = Len(resolutions[u])
    /\ \E written \in BOOLEAN :
         IF written
         THEN /\ wallpaper_resolutions' =
                    wallpaper_resolutions \o Append(resolutionData[u], OriginalRow(u))
              /\ Goto(u, "respond")
              /\ UNCHANGED response
         ELSE /\ Send(u, Failed(<<"bulkCreate failed">>))
              /\ Goto(u, "done")
              /\ UNCHANGED wallpaper_resolutions
    /\ UNCHANGED <<selectorVars, validateVars, siteVars, pureVars, req, svc, core, storage, wallpapers,
                   nextWallpaperId, wallpaper_categories, wallpaperId,
                   resolutions, resolutionData, calls>>

\* await WallpaperModel.findById(wallpaperId), res.status(201) (lines 547-553)
create_respond(u) ==
    /\ pc[u] = "respond"
    /\ \E read \in BOOLEAN :
         IF read
         THEN Send(u, Created(findById(wallpaperId[u])))
         ELSE Send(u, Failed(<<"findById failed">>))
    /\ Goto(u, "done")
    /\ UNCHANGED <<selectorVars, validateVars, siteVars, pureVars, req, svc, core, storage, wallpapers,
                   nextWallpaperId, wallpaper_categories, wallpaper_resolutions,
                   wallpaperId, resolutions, resolutionData, calls>>

----------------------------------------------------------------------------
(* The catalog the favorite, download and delete handlers work on *)

\* what every handler below leaves alone: the selector, the upload in
\* progress and the functions checked alone
ingestIdle ==
    <<selectorVars, pc, validateVars, pureVars, req, svc, core, storage, nextWallpaperId,
      wallpaperId, resolutions, resolutionData, response, calls>>

\* a wallpaper row as WallpaperModel.create wrote it, the counters at their
\* schema default
SeedWallpaper(id, slug) ==
    [id |-> id, slug |-> slug,
     original_url |-> UrlOf([kind |-> "cloudinary"], CoreFolder("original"),
                            CoreFilename(slug, "original")),
     thumbnail_url |-> UrlOf([kind |-> "cloudinary"], CoreFolder("thumbnail"),
                             CoreFilename(slug, "thumbnail")),
     medium_url |-> UrlOf([kind |-> "cloudinary"], CoreFolder("medium"),
                          CoreFilename(slug, "medium")),
     storage_provider_id |-> 1,
     download_count |-> 0,
     favorite_count |-> 0,
     is_active |-> 1]

SeedWallpapers == {SeedWallpaper(1, "sunset-a"), SeedWallpaper(2, "forest-b")}

\* UPDATE wallpapers SET ... WHERE id = ?, changed[w] the row w after the SET
UpdateWallpaper(id, changed) ==
    {IF w.id = id THEN changed[w] ELSE w : w \in wallpapers}

\* GREATEST(a, b)
GREATEST(a, b) == IF a >= b THEN a ELSE b

----------------------------------------------------------------------------
(* FavoriteController.add / remove and FavoriteModel.create / delete *)

FavSessions == {"f1", "f2"}

\* req.user.userId, 0 for a request without req.user
FavUsers == {0, 1, 2}

\* wallpaperId of the request: 0 when absent, 9 names no wallpaper
FavWallpaperIds == {0, 1, 9}

NoFav == [op |-> "none", user |-> 0, wallpaperId |-> 0, stage |-> "idle", status |-> 0]

FavoriteRow(u, w) == [user_id |-> u, wallpaper_id |-> w]

\* FavoriteModel.exists
FavoriteModel_exists(u, w) == FavoriteRow(u, w) \in favorites

FavIdle(s) == fav[s].stage \in {"idle", "done"}

FavAnswer(s, status) == fav' = [fav EXCEPT ![s].stage = "done", ![s].status = status]

\* the decrement of FavoriteModel.delete
Decrement(n) == GREATEST(n - 1, 0)

\* FavoriteController.add up to the answer of FavoriteModel.exists
FavoriteController_add(s, u, w) ==
    /\ FavIdle(s)
    /\ favOps < MaxFavOps
    /\ favOps' = favOps + 1
    /\ LET r == [op |-> "add", user |-> u, wallpaperId |-> w, stage |-> "done", status |-> 0]
       IN  fav' = [fav EXCEPT ![s] =
                     IF u = 0 THEN [r EXCEPT !.status = 401]
                     ELSE IF w = 0 THEN [r EXCEPT !.status = 400]
                     ELSE IF FavoriteModel_exists(u, w) THEN [r EXCEPT !.status = 400]
                     ELSE [r EXCEPT !.stage = "insert"]]
    /\ UNCHANGED <<favorites, wallpapers, wallpaper_categories, wallpaper_resolutions,
                   ingestIdle, downloadVars, userVars, authVars>>

\* FavoriteModel.create: the INSERT; a duplicate key or an unknown wallpaper
\* makes it throw, and the controller answers 500
FavoriteModel_create_insert(s) ==
    /\ fav[s].stage = "insert"
    /\ LET u == fav[s].user
           w == fav[s].wallpaperId
       IN  IF FavoriteModel_exists(u, w) \/ ~(\E x \in wallpapers : x.id = w)
           THEN /\ FavAnswer(s, 500)
                /\ UNCHANGED favorites
           ELSE /\ favorites' = favorites \cup {FavoriteRow(u, w)}
                /\ fav' = [fav EXCEPT ![s].stage = "count"]
    /\ UNCHANGED <<favOps, wallpapers, wallpaper_categories, wallpaper_resolutions,
                   ingestIdle, downloadVars, userVars, authVars>>

\* FavoriteModel.create: the UPDATE after the INSERT, and the answer 201
FavoriteModel_create_count(s) ==
    /\ fav[s].stage = "count"
    /\ wallpapers' = UpdateWallpaper(fav[s].wallpaperId,
                        [w \in wallpapers |-> [w EXCEPT !.favorite_count = @ + 1]])
    /\ FavAnswer(s, 201)
    /\ UNCHANGED <<favorites, favOps, wallpaper_categories, wallpaper_resolutions,
                   ingestIdle, downloadVars, userVars, authVars>>

\* FavoriteController.remove up to the DELETE of FavoriteModel.delete
FavoriteController_remove(s, u, w) ==
    /\ FavIdle(s)
    /\ favOps < MaxFavOps
    /\ favOps' = favOps + 1
    /\ LET r == [op |-> "remove", user |-> u, wallpaperId |-> w, stage |-> "done",
                 status |-> 0]
       IN  IF u = 0
           THEN /\ fav' = [fav EXCEPT ![s] = [r EXCEPT !.status = 401]]
                /\ UNCHANGED favorites
           ELSE IF FavoriteModel_exists(u, w)
           THEN /\ favorites' = favorites \ {FavoriteRow(u, w)}
                /\ fav' = [fav EXCEPT ![s] = [r EXCEPT !.stage = "uncount"]]
           ELSE /\ fav' = [fav EXCEPT ![s] = [r EXCEPT !.status = 200]]
                /\ UNCHANGED favorites
    /\ UNCHANGED <<wallpapers, wallpaper_categories, wallpaper_resolutions,
                   ingestIdle, downloadVars, userVars, authVars>>

\* FavoriteModel.delete: the UPDATE after a DELETE that removed a row, and
\* the answer 200
FavoriteModel_delete_count(s) ==
    /\ fav[s].stage = "uncount"
    /\ wallpapers' = UpdateWallpaper(fav[s].wallpaperId,
                        [w \in wallpapers |-> [w EXCEPT !.favorite_count = Decrement(@)]])
    /\ FavAnswer(s, 200)
    /\ UNCHANGED <<favorites, favOps, wallpaper_categories, wallpaper_resolutions,
                   ingestIdle, downloadVars, userVars, authVars>>

InitFavIdle ==
    /\ favorites = {}
    /\ fav = [s \in FavSessions |-> NoFav]
    /\ favOps = 0

----------------------------------------------------------------------------
(* DownloadController.trackDownload / downloadWallpaper, DownloadModel.create,
   WallpaperModel.incrementDownloadCount and WallpaperController.delete *)

DlSessions == {"d1", "d2"}
DlAdmins == {"a1"}

DlHandlers == {"trackDownload", "downloadWallpaper"}

\* wallpaperId and resolutionId of the request: 0 when absent, 9 names no row
DlWallpaperIds == {0, 1, 9}
DlResolutionIds == {0, 1, 9}

\* the :id of a delete request
DeleteIds == {1, 9}

NoDownload ==
    [handler |-> "none", wallpaperId |-> 0, resolutionId |-> 0, stage |-> "idle",
     status |-> 0, row |-> 0, late |-> FALSE]

NoDelete == [id |-> 0, stage |-> "idle", status |-> 0]

\* a wallpaper_resolutions row as bulkCreate wrote it
SeedResolution(wid, slug, name, width, height) ==
    [wallpaper_id |-> wid, width |-> width, height |-> height, resolution_name |-> name,
     url |-> UrlOf([kind |-> "cloudinary"], SweepFolder, SweepFilename(slug, name)),
     is_original |-> 0]

SeedResolutions ==
    <<SeedResolution(1, "sunset-a", "Full HD", 1920, 1080),
      SeedResolution(2, "forest-b", "HD", 1280, 720)>>

SeedLinks == {[wallpaper_id |-> 1, category_id |-> 1], [wallpaper_id |-> 2, category_id |-> 1]}

\* WallpaperResolutionModel.findById: the id of a row is its AUTO_INCREMENT,
\* its position in insertion order
WallpaperResolutionModel_findById(id) == id \in 1..Len(wallpaper_resolutions)

\* WallpaperModel.findBySlug: the active row with that slug
findBySlug(slug) ==
    IF \E w \in wallpapers : w.slug = slug /\ w.is_active = 1
    THEN LET row == CHOOSE w \in wallpapers : w.slug = slug /\ w.is_active = 1
         IN  [found |-> TRUE, row |-> row, categories |-> getCategories(row.id),
              resolutions |-> getResolutions(row.id)]
    ELSE NotFound

\* WallpaperModel.getAll without filters: every row the WHERE clause admits
\* (LIMIT and OFFSET return a part of them)
getAll == {w \in wallpapers : w.is_active = 1}

DlIdle(d) == dl[d].stage \in {"idle", "done"}

DlAnswer(d, status) == dl' = [dl EXCEPT ![d].stage = "done", ![d].status = status]

\* either handler up to the answer of WallpaperModel.findById
DownloadController_request(d, h, w, r) ==
    /\ DlIdle(d)
    /\ dlOps < MaxDownloads
    /\ dlOps' = dlOps + 1
    /\ LET q == [handler |-> h, wallpaperId |-> w, resolutionId |-> r, stage |-> "done",
                 status |-> 0, row |-> 0, late |-> w \in deleted]
       IN  dl' = [dl EXCEPT ![d] =
                    IF w = 0 \/ r = 0 THEN [q EXCEPT !.status = 400]
                    ELSE IF ~findById(w).found THEN [q EXCEPT !.status = 404]
                    ELSE [q EXCEPT !.stage = "resolution"]]
    /\ UNCHANGED <<downloads, nextDownloadId, del, deleted, wallpapers, wallpaper_categories,
                   wallpaper_resolutions, ingestIdle, favVars, userVars, authVars>>

\* the answer of WallpaperResolutionModel.findById
DownloadController_verifyResolution(d) ==
    /\ dl[d].stage = "resolution"
    /\ IF WallpaperResolutionModel_findById(dl[d].resolutionId)
       THEN dl' = [dl EXCEPT ![d].stage = "insert"]
       ELSE DlAnswer(d, 404)
    /\ UNCHANGED <<dlOps, downloads, nextDownloadId, del, deleted, wallpapers, wallpaper_categories,
                   wallpaper_resolutions, ingestIdle, favVars, userVars, authVars>>

\* DownloadModel.create: the INSERT; a rejected query is answered 500 by the
\* catch block
DownloadModel_create(d) ==
    /\ dl[d].stage = "insert"
    /\ \E written \in BOOLEAN :
         IF written
         THEN /\ downloads' = downloads \cup
                    {[id |-> nextDownloadId, wallpaper_id |-> dl[d].wallpaperId,
                      resolution_id |-> dl[d].resolutionId]}
              /\ nextDownloadId' = nextDownloadId + 1
              /\ dl' = [dl EXCEPT ![d].stage = "increment", ![d].row = nextDownloadId]
         ELSE /\ DlAnswer(d, 500)
              /\ UNCHANGED <<downloads, nextDownloadId>>
    /\ UNCHANGED <<dlOps, del, deleted, wallpapers, wallpaper_categories, wallpaper_resolutions,
                   ingestIdle, favVars, userVars, authVars>>

\* WallpaperModel.incrementDownloadCount, then the answer of trackDownload; a
\* rejected query is answered 500 by the catch block
incrementDownloadCount(d) ==
    /\ dl[d].stage = "increment"
    /\ \E written \in BOOLEAN :
         IF written
         THEN /\ wallpapers' = UpdateWallpaper(dl[d].wallpaperId,
                                  [w \in wallpapers |-> [w EXCEPT !.download_count = @ + 1]])
              /\ IF dl[d].handler = "downloadWallpaper"
                 THEN dl' = [dl EXCEPT ![d].stage = "fetch"]
                 ELSE DlAnswer(d, 200)
         ELSE /\ DlAnswer(d, 500)
              /\ UNCHANGED wallpapers
    /\ UNCHANGED <<dlOps, downloads, nextDownloadId, del, deleted, wallpaper_categories,
                   wallpaper_resolutions, ingestIdle, favVars, userVars, authVars>>

\* downloadWallpaper: axios.get of the resolution's url, then the file is sent
DownloadController_fetch(d) ==
    /\ dl[d].stage = "fetch"
    /\ \E fetched \in BOOLEAN : DlAnswer(d, IF fetched THEN 200 ELSE 500)
    /\ UNCHANGED <<dlOps, downloads, nextDownloadId, del, deleted, wallpapers, wallpaper_categories,
                   wallpaper_resolutions, ingestIdle, favVars, userVars, authVars>>

\* WallpaperController.delete up to the answer of WallpaperModel.findById
WallpaperController_delete(a, id) ==
    /\ del[a].stage \in {"idle", "done"}
    /\ del' = [del EXCEPT ![a] =
                 IF findById(id).found
                 THEN [id |-> id, stage |-> "update", status |-> 0]
                 ELSE [id |-> id, stage |-> "done", status |-> 404]]
    /\ UNCHANGED <<dlOps, downloads, nextDownloadId, dl, deleted, wallpapers, wallpaper_categories,
                   wallpaper_resolutions, ingestIdle, favVars, userVars, authVars>>

\* WallpaperModel.delete, then the answer
WallpaperModel_delete(a) ==
    /\ del[a].stage = "update"
    /\ wallpapers' = UpdateWallpaper(del[a].id, [w \in wallpapers |-> [w EXCEPT !.is_active = 0]])
    /\ deleted' = deleted \cup {del[a].id}
    /\ del' = [del EXCEPT ![a].stage = "done", ![a].status = 200]
    /\ UNCHANGED <<dlOps, downloads, nextDownloadId, dl, wallpaper_categories,
                   wallpaper_resolutions, ingestIdle, favVars, userVars, authVars>>

InitDownloadIdle ==
    /\ downloads = {}
    /\ nextDownloadId = 1
    /\ dlOps = 0
    /\ dl = [d \in DlSessions |-> NoDownload]
    /\ del = [a \in DlAdmins |-> NoDelete]
    /\ deleted = {}

----------------------------------------------------------------------------
(* UserController.create / update / delete and UserModel *)

\* enum UserType
ADMIN == 1
REGISTERED == 2
GUEST == 3

AdminSessions == {"s1", "s2"}

OwnerEmail == "admin@wallspie.com"

UserRow(id, email, password, name, type, owner, active) ==
    [id |-> id, email |-> email, password |-> password, name |-> name,
     user_type |-> type, is_owner |-> owner, is_active |-> active]

\* the account seeded by schema.sql
OwnerRow == UserRow(1, OwnerEmail, <<"hash", "Admin@123">>, "Admin", ADMIN, 1, 1)

SeedUsers == {OwnerRow}

\* bcrypt.hash
Hash(password) == <<"hash", password>>

\* the fields of req.body; "" is an absent or empty string
UserBody(name, email, password, type, active, owner) ==
    [name |-> name, email |-> email, password |-> password, user_type |-> type,
     is_active |-> active, is_owner |-> owner]

NoBody == UserBody("", "", "", NoOpt, NoOpt, NoOpt)

NoAdminRequest ==
    [op |-> "none", actor |-> 0, id |-> 0, body |-> NoBody, stage |-> "idle", status |-> 0]

\* UserModel.findById
UserModel_findById(id) == {u \in users : u.id = id}

\* UserModel.findByEmail
UserModel_findByEmail(email) == {u \in users : u.email = email /\ u.is_active = 1}

\* email VARCHAR(255) UNIQUE: another row holds that email
EmailTaken(email, id) == \E u \in users : u.email = email /\ u.id # id

AdmIdle(s) == adm[s].stage \in {"idle", "done"}

AdmAnswer(s, status) == adm' = [adm EXCEPT ![s].stage = "done", ![s].status = status]

AdmStart(s, op, actor, id, body, status) ==
    adm' = [adm EXCEPT ![s] =
              [op |-> op, actor |-> actor, id |-> id, body |-> body,
               stage |-> IF status = 0 THEN "write" ELSE "done", status |-> status]]

ValidUserType(t) == t \in {ADMIN, REGISTERED}

\* the userData UserController.create hands to UserModel.create (lines 97-118)
CreateUserData(body) ==
    [name |-> body.name, email |-> body.email,
     password |-> Hash(IF body.password # "" THEN body.password ELSE "Test@123"),
     user_type |-> IF Truthy(body.user_type) THEN body.user_type.val ELSE REGISTERED,
     is_owner |-> 0,
     is_active |-> 1]

\* the row UserModel.create inserts
UserModel_create(id, data) ==
    UserRow(id, data.email, data.password, data.name,
            IF data.user_type # 0 THEN data.user_type ELSE REGISTERED,
            IF data.is_owner # 0 THEN data.is_owner ELSE 0,
            data.is_active)

\* UserController.create up to the answer of UserModel.findByEmail
UserController_create(s, actor, body) ==
    /\ AdmIdle(s)
    /\ admOps < MaxAdmOps
    /\ admOps' = admOps + 1
    /\ AdmStart(s, "create", actor, 0, body,
                IF body.name = "" \/ body.email = "" THEN 400
                ELSE IF UserModel_findByEmail(body.email) # {} THEN 400
                ELSE 0)
    /\ UNCHANGED <<users, nextUserId, wallpapers, wallpaper_categories,
                   wallpaper_resolutions, ingestIdle, favVars, downloadVars, authVars>>

\* UserController.create after bcrypt.hash: the user_type check, the INSERT
\* (rejected when the email is held by another row) and the answer
UserController_create_insert(s) ==
    /\ adm[s].stage = "write"
    /\ adm[s].op = "create"
    /\ LET data == CreateUserData(adm[s].body)
       IN  IF ~ValidUserType(data.user_type)
           THEN /\ AdmAnswer(s, 400)
                /\ UNCHANGED <<users, nextUserId>>
           ELSE IF EmailTaken(data.email, 0)
           THEN /\ AdmAnswer(s, 500)
                /\ UNCHANGED <<users, nextUserId>>
           ELSE /\ users' = users \cup {UserModel_create(nextUserId, data)}
                /\ nextUserId' = nextUserId + 1
                /\ adm' = [adm EXCEPT ![s].stage = "done", ![s].status = 201,
                                      ![s].id = nextUserId]
    /\ UNCHANGED <<admOps, wallpapers, wallpaper_categories, wallpaper_resolutions,
                   ingestIdle, favVars, downloadVars, authVars>>

\* the answer of UserController.update before it writes: 0 when it goes on
UpdateOutcomeOwnerAllowed(id, body) ==
    LET found == UserModel_findById(id)
    IN  IF found = {} THEN 404
        ELSE LET user == CHOOSE u \in found : TRUE
             IN  IF body.email # "" /\ body.email # user.email
                    /\ (\E e \in UserModel_findByEmail(body.email) : e.id # user.id)
                 THEN 400
                 ELSE IF body.user_type.given /\ ~ValidUserType(body.user_type.val)
                 THEN 400
                 ELSE 0

\* the answer of UserController.update before it writes (lines 145-191): 0
\* when it goes on
UpdateOutcome(id, body) ==
    LET found == UserModel_findById(id)
    IN  IF found = {} THEN 404
        ELSE LET user == CHOOSE u \in found : TRUE
             IN  IF user.is_owner = 1 THEN 403
                 ELSE IF body.email # "" /\ body.email # user.email
                         /\ (\E e \in UserModel_findByEmail(body.email) : e.id # user.id)
                 THEN 400
                 ELSE IF body.user_type.given /\ ~ValidUserType(body.user_type.val)
                 THEN 400
                 ELSE 0

\* UserModel.update: the row after the UPDATE built from the updates object
UserModel_update(u, body) ==
    [u EXCEPT !.email = IF body.email # "" THEN body.email ELSE @,
              !.name = IF body.name # "" THEN body.name ELSE @,
              !.password = IF body.password # "" THEN Hash(body.password) ELSE @,
              !.is_active = IF body.is_active.given THEN body.is_active.val ELSE @,
              !.user_type = IF body.user_type.given THEN body.user_type.val ELSE @]

\* UserController.update up to the checks before the write
UserController_update(s, actor, id, body) ==
    /\ AdmIdle(s)
    /\ admOps < MaxAdmOps
    /\ admOps' = admOps + 1
    /\ AdmStart(s, "update", actor, id, body, UpdateOutcome(id, body))
    /\ UNCHANGED <<users, nextUserId, wallpapers, wallpaper_categories,
                   wallpaper_resolutions, ingestIdle, favVars, downloadVars, authVars>>

\* UserController.update: UserModel.update (rejected when the email is held
\* by another row) and the answer
UserController_update_write(s) ==
    /\ adm[s].stage = "write"
    /\ adm[s].op = "update"
    /\ IF adm[s].body.email # "" /\ EmailTaken(adm[s].body.email, adm[s].id)
       THEN /\ AdmAnswer(s, 500)
            /\ UNCHANGED users
       ELSE /\ users' = {IF u.id = adm[s].id THEN UserModel_update(u, adm[s].body) ELSE u :
                            u \in users}
            /\ AdmAnswer(s, 200)
    /\ UNCHANGED <<nextUserId, admOps, wallpapers, wallpaper_categories,
                   wallpaper_resolutions, ingestIdle, favVars, downloadVars, authVars>>

\* the answer of UserController.delete before it writes (lines 225-250): 0
\* when it goes on
DeleteOutcome(actor, id) ==
    LET found == UserModel_findById(id)
    IN  IF found = {} THEN 404
        ELSE LET user == CHOOSE u \in found : TRUE
             IN  IF user.is_owner = 1 THEN 403
                 ELSE IF actor = user.id THEN 403
                 ELSE 0

\* UserController.delete up to the checks before the write
UserController_delete(s, actor, id) ==
    /\ AdmIdle(s)
    /\ admOps < MaxAdmOps
    /\ admOps' = admOps + 1
    /\ AdmStart(s, "delete", actor, id, NoBody, DeleteOutcome(actor, id))
    /\ UNCHANGED <<users, nextUserId, wallpapers, wallpaper_categories,
                   wallpaper_resolutions, ingestIdle, favVars, downloadVars, authVars>>

\* UserModel.delete, then the answer
UserModel_delete(s) ==
    /\ adm[s].stage = "write"
    /\ adm[s].op = "delete"
    /\ users' = {IF u.id = adm[s].id THEN [u EXCEPT !.is_active = 0] ELSE u : u \in users}
    /\ AdmAnswer(s, 200)
    /\ UNCHANGED <<nextUserId, admOps, wallpapers, wallpaper_categories,
                   wallpaper_resolutions, ingestIdle, favVars, downloadVars, authVars>>

InitUserIdle ==
    /\ users = SeedUsers
    /\ nextUserId = 2
    /\ adm = [s \in AdminSessions |-> NoAdminRequest]
    /\ admOps = 0

----------------------------------------------------------------------------
(* authenticateToken, requireAdmin and the admin routes of wallpaper.routes.ts *)

GateRequests == {"g1", "g2"}

\* the combined middleware authAdmin
authAdmin == <<"authenticateToken", "requireAdmin">>

\* the admin routes and the middleware chain of each, the handler last
AdminRoutes == {"POST /", "PUT /:id", "DELETE /:id"}

Chain(route) ==
    CASE route = "POST /" -> authAdmin \o <<"upload", "validateWallpaper", "create">>
      [] route = "PUT /:id" -> authAdmin \o <<"update">>
      [] route = "DELETE /:id" -> authAdmin \o <<"delete">>

HandlerOf(route) == Chain(route)[Len(Chain(route))]

\* a token: signed with JWT_SECRET or JWT_REFRESH_SECRET or not at all
\* (garbage), expired or not, with the userId and userType of its payload
Token(secret, expired, userId, userType) ==
    [secret |-> secret, expired |-> expired, userId |-> userId, userType |-> userType]

Tokens ==
    {Token(s, e, 2, t) : s \in {"access", "refresh", "garbage"}, e \in BOOLEAN,
                         t \in {ADMIN, REGISTERED, GUEST}}

\* the authorization header split at spaces: absent, 'Bearer', 'Bearer TOKEN'
Headers == {<<>>, <<"Bearer">>} \cup {<<"Bearer", t>> : t \in Tokens}

NoUser == [userId |-> 0, userType |-> 0]

\* authHeader && authHeader.split(' ')[1]
HasToken(header) == Len(header) >= 2

\* jwt.verify(token, JWT_SECRET) accepts the token
Verifies(token) == token.secret = "access" /\ ~token.expired

\* JWTUtil.verifyAccessToken: the payload of an accepted token
verifyAccessToken(token) == [userId |-> token.userId, userType |-> token.userType]

NoGate ==
    [route |-> "none", header |-> <<>>, index |-> 0, user |-> NoUser, ran |-> <<>>,
     status |-> 0]

\* the middleware the request is waiting for
Waiting(g, name) ==
    /\ gate[g].index > 0
    /\ gate[g].status = 0
    /\ Chain(gate[g].route)[gate[g].index] = name

\* next()
GateNext(g, name) ==
    gate' = [gate EXCEPT ![g].index = @ + 1, ![g].ran = Append(@, name)]

\* res.status(status).json(...) with no next()
GateAnswer(g, name, status) ==
    gate' = [gate EXCEPT ![g].status = status, ![g].ran = Append(@, name)]

\* a request arrives on an admin route
Arrive(g, route, header) ==
    /\ gate[g].index = 0 \/ gate[g].status # 0
    /\ gate' = [gate EXCEPT ![g] = [NoGate EXCEPT !.route = route, !.header = header,
                                                  !.index = 1]]
    /\ UNCHANGED <<wallpapers, wallpaper_categories, wallpaper_resolutions, ingestIdle,
                   favVars, downloadVars, userVars>>

\* authenticateToken
authenticateToken(g) ==
    /\ Waiting(g, "authenticateToken")
    /\ IF ~HasToken(gate[g].header)
       THEN GateAnswer(g, "authenticateToken", 401)
       ELSE IF ~Verifies(gate[g].header[2])
       THEN GateAnswer(g, "authenticateToken", 403)
       ELSE gate' = [gate EXCEPT ![g].user = verifyAccessToken(gate[g].header[2]),
                                 ![g].index = @ + 1,
                                 ![g].ran = Append(@, "authenticateToken")]
    /\ UNCHANGED <<wallpapers, wallpaper_categories, wallpaper_resolutions, ingestIdle,
                   favVars, downloadVars, userVars>>

\* requireAdmin letting every authenticated user pass
requireAdminOutcomeAnyUser(user) ==
    IF user = NoUser THEN 401 ELSE 0

\* the answer of requireAdmin: 0 when it calls next()
requireAdminOutcome(user) ==
    IF user = NoUser THEN 401
    ELSE IF user.userType # ADMIN THEN 403
    ELSE 0

\* requireAdmin
requireAdmin(g) ==
    /\ Waiting(g, "requireAdmin")
    /\ IF requireAdminOutcome(gate[g].user) = 0
       THEN GateNext(g, "requireAdmin")
       ELSE GateAnswer(g, "requireAdmin", requireAdminOutcome(gate[g].user))
    /\ UNCHANGED <<wallpapers, wallpaper_categories, wallpaper_resolutions, ingestIdle,
                   favVars, downloadVars, userVars>>

\* WallpaperController.upload (multer) and validateWallpaper: the request
\* passes or is answered 400
PassOrReject(g, name) ==
    /\ name \in {"upload", "validateWallpaper"}
    /\ Waiting(g, name)
    /\ \E passes \in BOOLEAN :
         IF passes THEN GateNext(g, name) ELSE GateAnswer(g, name, 400)
    /\ UNCHANGED <<wallpapers, wallpaper_categories, wallpaper_resolutions, ingestIdle,
                   favVars, downloadVars, userVars>>

\* the route handler runs; the DELETE handler is WallpaperController.delete
\* on wallpaper 1 (found: WallpaperModel.delete and 200; not found: 404)
RouteHandler(g) ==
    /\ Waiting(g, HandlerOf(gate[g].route))
    /\ IF gate[g].route = "DELETE /:id"
       THEN IF findById(1).found
            THEN /\ wallpapers' = UpdateWallpaper(1, [w \in wallpapers |-> [w EXCEPT !.is_active = 0]])
                 /\ GateAnswer(g, "delete", 200)
            ELSE /\ GateAnswer(g, "delete", 404)
                 /\ UNCHANGED wallpapers
       ELSE /\ \E status \in {200, 500} :
                 GateAnswer(g, HandlerOf(gate[g].route), status)
            /\ UNCHANGED wallpapers
    /\ UNCHANGED <<wallpaper_categories, wallpaper_resolutions, ingestIdle,
                   favVars, downloadVars, userVars>>

InitAuthIdle == gate = [g \in GateRequests |-> NoGate]

\* the favorite, download, user and route handlers at rest
InitSiteIdle ==
    /\ InitFavIdle
    /\ InitDownloadIdle
    /\ InitUserIdle
    /\ InitAuthIdle

----------------------------------------------------------------------------
(* The storage selector under concurrent clients *)

ProviderIds == {1, 2, 3}

InitFactory ==
    /\ instance = Null
    /\ nextInst = 1
    /\ queries = 0
    /\ pending = [p \in Procs |-> NoPending]
    /\ ret = NoRet
    /\ lastRet = Null
    /\ hist = NoHist
    /\ cachedFallback = FALSE
    /\ stale = NoStale

InitSelector ==
    /\ storage_providers = SeedProviders
    /\ InitFactory

InitValidateIdle ==
    /\ vImage = Image(FALSE, "", 0, 0, 0)
    /\ vOptions = Options(NoOpt, NoOpt, NoOpt, NoFormats)
    /\ vResult = NoResult

InitIngest ==
    /\ req = [u \in Uploads |-> NoRequest]
    /\ svc = [u \in Uploads |-> Null]
    /\ core = [u \in Uploads |-> [k \in CoreUploads |-> "none"]]
    /\ storage = {}
    /\ wallpapers = {}
    /\ nextWallpaperId = 1
    /\ wallpaper_categories = {}
    /\ wallpaper_resolutions = <<>>
    /\ wallpaperId = [u \in Uploads |-> 0]
    /\ resolutions = [u \in Uploads |-> <<>>]
    /\ resolutionData = [u \in Uploads |-> <<>>]
    /\ response = [u \in Uploads |-> NoResponse]
    /\ calls = [u \in Uploads |-> NoCalls]

InitColorIdle ==
    /\ cImage = ColorImage(FALSE, FALSE, <<>>)
    /\ cResult = NoColor

InitResizeIdle ==
    /\ rSource = SourceImage(FALSE, "", 0, 0)
    /\ rArgs = ResizeArgs(0, 0, NoStr, NoStr)
    /\ rResult = NoVariant

InitSlugIdle ==
    /\ now = 0
    /\ slugs = [n \in Namers |-> NoSlug]

InitUrlIdle ==
    /\ uArgs = UrlArgs(S3Config("", ""), "", UrlOptions(NoOpt, NoOpt, NoOpt, NoStr))
    /\ uResult = NoUrl

InitPureIdle ==
    /\ InitColorIdle
    /\ InitResizeIdle
    /\ InitSlugIdle
    /\ InitUrlIdle

Init ==
    /\ InitSelector
    /\ InitValidateIdle
    /\ InitPureIdle
    /\ InitIngest
    /\ pc = [p \in Procs |-> "idle"]
    /\ InitSiteIdle

NextSelector ==
    \/ \E p \in Clients : getActiveService_begin(p)
    \/ \E p \in Clients : getActiveService_end(p)
    \/ reset
    \/ \E p \in Clients : \E id \in ProviderIds : getServiceById(p, id)
    \/ UpdateProviders

SpecSelector == Init /\ [][NextSelector]_vars

----------------------------------------------------------------------------
(* validate over every image and options object *)

InitValidate ==
    /\ InitSelector
    /\ InitIngest
    /\ InitPureIdle
    /\ pc = [p \in Procs |-> "idle"]
    /\ vImage \in Images
    /\ vOptions \in OptionSets
    /\ vResult = NoResult
    /\ InitSiteIdle

NextValidate == Validate

SpecValidate == InitValidate /\ [][NextValidate]_vars

----------------------------------------------------------------------------
(* The image, slug and url functions over their inputs *)

\* everything but the function under study is idle
InitOthersIdle ==
    /\ InitSelector
    /\ InitValidateIdle
    /\ InitIngest
    /\ pc = [p \in Procs |-> "idle"]
    /\ InitSiteIdle

InitColor ==
    /\ InitOthersIdle
    /\ InitResizeIdle /\ InitSlugIdle /\ InitUrlIdle
    /\ cImage \in ColorImages
    /\ cResult = NoColor

NextColor == ExtractPrimaryColor

SpecColor == InitColor /\ [][NextColor]_vars

InitResize ==
    /\ InitOthersIdle
    /\ InitColorIdle /\ InitSlugIdle /\ InitUrlIdle
    /\ rSource \in SourceImages
    /\ rArgs \in ResizeArgSets
    /\ rResult = NoVariant

NextResize == Resize

SpecResize == InitResize /\ [][NextResize]_vars

\* two uploads asking for a slug while the clock runs
InitSlug ==
    /\ InitOthersIdle
    /\ InitPureIdle

NextSlug ==
    \/ \E n \in Namers : generateWithTimestamp(n)
    \/ Tick

SpecSlug == InitSlug /\ [][NextSlug]_vars

InitUrl ==
    /\ InitOthersIdle
    /\ InitColorIdle /\ InitResizeIdle /\ InitSlugIdle
    /\ uArgs \in {UrlArgs(c, id, o) : c \in S3Configs, id \in PublicIds, o \in UrlOptionSets}
    /\ uResult = NoUrl

NextUrl == GetUrl

SpecUrl == InitUrl /\ [][NextUrl]_vars

----------------------------------------------------------------------------
(* One upload through WallpaperController.create *)

IngestTables ==
    { SeedProviders,
      {ProviderRow(1, "cloudinary", 0, 1), ProviderRow(2, "s3", 1, 2)} }

InitCreate ==
    /\ storage_providers \in IngestTables
    /\ InitFactory
    /\ InitValidateIdle
    /\ InitPureIdle
    /\ InitIngest
    /\ pc = [p \in Procs |-> "idle"]
    /\ InitSiteIdle

NextCreate ==
    \/ \E u \in Uploads : create_begin(u)
    \/ \E u \in Uploads : getActiveService_begin(u)
    \/ \E u \in Uploads : getActiveService_end(u)
    \/ \E u \in Uploads : create_core(u)
    \/ \E u \in Uploads : \E k \in CoreUploads : upload_settle(u, k)
    \/ \E u \in Uploads : create_insert(u)
    \/ \E u \in Uploads : create_categories(u)
    \/ \E u \in Uploads : create_generate(u)
    \/ \E u \in Uploads : create_sweep(u)
    \/ \E u \in Uploads : create_bulkCreate(u)
    \/ \E u \in Uploads : create_respond(u)

SpecCreate == InitCreate /\ [][NextCreate]_vars

----------------------------------------------------------------------------
(* The catalog after two uploads, and the handlers working on it *)

SeedStorage ==
    UNION {{StoredObject([kind |-> "cloudinary"], CoreFolder(k), CoreFilename(w.slug, k)) :
                k \in CoreUploads} : w \in SeedWallpapers}
    \cup {StoredObject([kind |-> "cloudinary"], SweepFolder,
                       SweepFilename("sunset-a", "Full HD")),
          StoredObject([kind |-> "cloudinary"], SweepFolder,
                       SweepFilename("forest-b", "HD"))}

\* the selector and the upload handler at rest, two wallpapers in the tables
InitCatalog ==
    /\ InitSelector
    /\ InitValidateIdle
    /\ InitPureIdle
    /\ pc = [p \in Procs |-> "idle"]
    /\ req = [u \in Uploads |-> NoRequest]
    /\ svc = [u \in Uploads |-> Null]
    /\ core = [u \in Uploads |-> [k \in CoreUploads |-> "none"]]
    /\ storage = SeedStorage
    /\ nextWallpaperId = 3
    /\ wallpaper_categories = SeedLinks
    /\ wallpaper_resolutions = SeedResolutions
    /\ wallpaperId = [u \in Uploads |-> 0]
    /\ resolutions = [u \in Uploads |-> <<>>]
    /\ resolutionData = [u \in Uploads |-> <<>>]
    /\ response = [u \in Uploads |-> NoResponse]
    /\ calls = [u \in Uploads |-> NoCalls]

\* users adding and removing favorites, two requests at a time
InitFavorites ==
    /\ InitCatalog
    /\ wallpapers = SeedWallpapers
    /\ InitSiteIdle

NextFavorites ==
    \/ \E s \in FavSessions : \E u \in FavUsers : \E w \in FavWallpaperIds :
          FavoriteController_add(s, u, w)
    \/ \E s \in FavSessions : FavoriteModel_create_insert(s)
    \/ \E s \in FavSessions : FavoriteModel_create_count(s)
    \/ \E s \in FavSessions : \E u \in FavUsers : \E w \in FavWallpaperIds :
          FavoriteController_remove(s, u, w)
    \/ \E s \in FavSessions : FavoriteModel_delete_count(s)

SpecFavorites == InitFavorites /\ [][NextFavorites]_vars

\* downloads and deletions; user 1 holds wallpaper 1 as a favorite
InitDownload ==
    /\ InitCatalog
    /\ wallpapers = {[SeedWallpaper(1, "sunset-a") EXCEPT !.favorite_count = 1],
                     SeedWallpaper(2, "forest-b")}
    /\ favorites = {FavoriteRow(1, 1)}
    /\ fav = [s \in FavSessions |-> NoFav]
    /\ favOps = 0
    /\ InitDownloadIdle
    /\ InitUserIdle
    /\ InitAuthIdle

NextDownload ==
    \/ \E d \in DlSessions : \E h \in DlHandlers : \E w \in DlWallpaperIds :
          \E r \in DlResolutionIds : DownloadController_request(d, h, w, r)
    \/ \E d \in DlSessions : DownloadController_verifyResolution(d)
    \/ \E d \in DlSessions : DownloadModel_create(d)
    \/ \E d \in DlSessions : incrementDownloadCount(d)
    \/ \E d \in DlSessions : DownloadController_fetch(d)
    \/ \E a \in DlAdmins : \E id \in DeleteIds : WallpaperController_delete(a, id)
    \/ \E a \in DlAdmins : WallpaperModel_delete(a)

SpecDownload == InitDownload /\ [][NextDownload]_vars

\* the bodies of the user-administration requests: empty; a new user, asking
\* for is_owner = 1; the owner's email; a user type that is not allowed; a
\* deactivation; every field at once
UserBodies ==
    {NoBody,
     UserBody("Ann", "ann@wallspie.com", "", NoOpt, NoOpt, Some(1)),
     UserBody("Ann", OwnerEmail, "pw", Some(ADMIN), NoOpt, Some(1)),
     UserBody("Ann", "ann@wallspie.com", "pw", Some(GUEST), NoOpt, NoOpt),
     UserBody("", "", "", NoOpt, Some(0), NoOpt),
     UserBody("Eve", "eve@wallspie.com", "pw", Some(REGISTERED), Some(0), Some(1))}

\* req.user.userId and the :id of the requests; no user has id 3 at the start
Actors == {1, 2}
UserIds == {1, 2, 3}

\* the owner and a second administrator
InitUsers ==
    /\ InitCatalog
    /\ wallpapers = SeedWallpapers
    /\ InitFavIdle
    /\ InitDownloadIdle
    /\ InitAuthIdle
    /\ users = SeedUsers \cup
               {UserRow(2, "bob@wallspie.com", Hash("pw"), "Bob", ADMIN, 0, 1)}
    /\ nextUserId = 3
    /\ adm = [s \in AdminSessions |-> NoAdminRequest]
    /\ admOps = 0

NextUsers ==
    \/ \E s \in AdminSessions : \E actor \in Actors : \E body \in UserBodies :
          UserController_create(s, actor, body)
    \/ \E s \in AdminSessions : UserController_create_insert(s)
    \/ \E s \in AdminSessions : \E actor \in Actors : \E id \in UserIds :
          \E body \in UserBodies : UserController_update(s, actor, id, body)
    \/ \E s \in AdminSessions : UserController_update_write(s)
    \/ \E s \in AdminSessions : \E actor \in Actors : \E id \in UserIds :
          UserController_delete(s, actor, id)
    \/ \E s \in AdminSessions : UserModel_delete(s)

SpecUsers == InitUsers /\ [][NextUsers]_vars

\* requests on the admin routes of the wallpaper router
InitAuth ==
    /\ InitCatalog
    /\ wallpapers = SeedWallpapers
    /\ InitSiteIdle

NextAuth ==
    \/ \E g \in GateRequests : \E route \in AdminRoutes : \E header \in Headers :
          Arrive(g, route, header)
    \/ \E g \in GateRequests : authenticateToken(g)
    \/ \E g \in GateRequests : requireAdmin(g)
    \/ \E g \in GateRequests : \E name \in {"upload", "validateWallpaper"} :
          PassOrReject(g, name)
    \/ \E g \in GateRequests : RouteHandler(g)

SpecAuth == InitAuth /\ [][NextAuth]_vars

----------------------------------------------------------------------------
(* Properties of WallpaperController.create *)

\* the category ids of the request, as a set
Requested(u) == {req[u].categoryIds[i] : i \in 1..Len(req[u].categoryIds)}

\* the names of a sequence of resolution rows
NamesOf(rows) == [i \in 1..Len(rows) |-> rows[i].resolution_name]

CatalogNames == [i \in 1..Len(RESOLUTIONS) |-> RESOLUTIONS[i].name]

NothingWritten ==
    /\ wallpapers = {}
    /\ wallpaper_categories = {}
    /\ wallpaper_resolutions = <<>>

\* C1: a wallpaper that findById returns already has the category links asked
\* for and its resolution rows.
C1_NoPartialWallpaper ==
    \A u \in Uploads :
        LET seen == findById(wallpaperId[u])
        IN  seen.found =>
               /\ seen.categories = Requested(u)
               /\ seen.resolutions # <<>>

\* C2: an upload whose image fails validate is answered 400 with all the
\* errors of validate, and nothing else happens: the storage service is not
\* resolved, no upload is issued, no row is written.
C2_InvalidImageNoWork ==
    \A u \in Uploads :
        (req[u].hasFile /\ ~validate(req[u].image, ControllerOptions).valid) =>
           /\ pc[u] = "done"
           /\ response[u].status = 400
           /\ response[u].errors = validate(req[u].image, ControllerOptions).errors
           /\ svc[u] = Null /\ queries = 0 /\ pending[u] = NoPending
           /\ \A k \in CoreUploads : core[u][k] = "none"
           /\ storage = {}
           /\ calls[u] = NoCalls
           /\ NothingWritten

\* C2 witness: an image violating three constraints was rejected with three
\* messages.
C2_Witness ==
    \E u \in Uploads :
        /\ req[u].hasFile /\ req[u].image.format = "gif"
        /\ pc[u] = "done"
        /\ response[u].status = 400 /\ Len(response[u].errors) = 3

\* C3: once one of the three core uploads has failed, the request has ended
\* with the error of a failed core upload, generateAllResolutions and the
\* sweep uploads were never called, and no row is written.
C3_CoreUploadFailureAborts ==
    \A u \in Uploads :
        (\E k \in CoreUploads : core[u][k] = "failed") =>
           /\ pc[u] = "done"
           /\ response[u].status = 500
           /\ \E k \in CoreUploads :
                 core[u][k] = "failed" /\ response[u].error = <<"upload failed", k>>
           /\ calls[u].generateAll = 0
           /\ calls[u].sweepUploads = 0
           /\ resolutions[u] = <<>> /\ resolutionData[u] = <<>>
           /\ NothingWritten

\* C3 witness: the original upload failed, the two others were stored, and
\* the request ended with status 500.
C3_Witness ==
    \E u \in Uploads :
        /\ core[u] = [k \in CoreUploads |-> IF k = "original" THEN "failed" ELSE "ok"]
        /\ Cardinality(storage) = 2
        /\ pc[u] = "done" /\ response[u].status = 500

\* C4: when the upload of exactly one catalog entry fails in the sweep, the
\* request is not failed by it; it ends with status 201, the other generated
\* entries recorded in order and the three core assets stored.
C4_SweepUploadFailureTolerated ==
    \A u \in Uploads :
        Cardinality(calls[u].sweepFailed) = 1 =>
           /\ \A n \in calls[u].sweepFailed : response[u].error # <<"upload failed", n>>
           /\ pc[u] = "done" /\ response[u].status = 201 =>
                 /\ \A k \in CoreUploads :
                       StoredObject(svc[u], CoreFolder(k),
                                    CoreFilename(SlugOf(req[u].title), k)) \in storage
                 /\ LET kept == SelectSeq(resolutions[u],
                                         LAMBDA r : r.name \notin calls[u].sweepFailed)
                    IN  NamesOf(SelectSeq(RowsOf(wallpaperId[u]),
                                          LAMBDA r : r.is_original = 0))
                           = [i \in 1..Len(kept) |-> kept[i].name]

\* C5: an upload that ended with status 201, no resize and no upload having
\* failed, produced and recorded the nine catalog entries in catalog order,
\* each under its name, followed by the Original row; the response lists
\* these rows by decreasing width.
C5_AllCatalogEntriesInOrder ==
    \A u \in Uploads :
        (pc[u] = "done" /\ response[u].status = 201
            /\ calls[u].genFailed = {} /\ calls[u].sweepFailed = {}) =>
           LET rows == RowsOf(wallpaperId[u])
           IN  /\ Len(resolutions[u]) = 9
               /\ [i \in 1..Len(resolutions[u]) |-> resolutions[u][i].name] = CatalogNames
               /\ Len(rows) = 10
               /\ SubSeq(NamesOf(rows), 1, 9) = CatalogNames
               /\ \A i \in 1..9 : /\ rows[i].is_original = 0
                                  /\ rows[i].width = RESOLUTIONS[i].width
                                  /\ rows[i].height = RESOLUTIONS[i].height
               /\ rows[10].resolution_name = "Original"
               /\ response[u].data.resolutions = OrderByWidthDesc(rows)

\* C5 witness: such an upload has ended.
C5_Witness ==
    \E u \in Uploads :
        /\ pc[u] = "done" /\ response[u].status = 201
        /\ calls[u].genFailed = {} /\ calls[u].sweepFailed = {}
        /\ calls[u].sweepUploads = 9
        /\ Len(wallpaper_resolutions) = 10

----------------------------------------------------------------------------
(* Properties of validate *)

Constraints == {"format", "width", "height", "size"}

\* the constraints of the options that the image violates
Violates(image, options, c) ==
    CASE c = "format" -> options.allowedFormats.given
                         /\ image.format \notin options.allowedFormats.val
      [] c = "width" -> options.maxWidth.given /\ image.width > options.maxWidth.val
      [] c = "height" -> options.maxHeight.given /\ image.height > options.maxHeight.val
      [] c = "size" -> options.maxSize.given /\ image.length > options.maxSize.val

MessageOf(c) ==
    CASE c = "format" -> "Invalid format"
      [] c = "width" -> "Width exceeds maximum"
      [] c = "height" -> "Height exceeds maximum"
      [] c = "size" -> "File size exceeds maximum"

Occurrences(errors, m) == Cardinality({i \in 1..Len(errors) : errors[i] = m})

\* C10: validate does not throw; for a decodable image the errors hold one
\* message for each violated constraint and nothing else, valid being true
\* exactly when there is none; for an undecodable buffer valid is false and
\* there is a message.
C10_OneMessagePerViolation ==
    vResult # NoResult =>
       /\ ~vResult.threw
       /\ IF vImage.decodable
          THEN /\ \A c \in Constraints :
                     Occurrences(vResult.errors, MessageOf(c))
                        = IF Violates(vImage, vOptions, c) THEN 1 ELSE 0
               /\ Len(vResult.errors)
                     = Cardinality({c \in Constraints : Violates(vImage, vOptions, c)})
               /\ vResult.valid <=> (vResult.errors = <<>>)
          ELSE ~vResult.valid /\ Len(vResult.errors) >= 1

----------------------------------------------------------------------------
(* Properties of the storage selector *)

\* What the configuration says: the provider names of the active rows of
\* greatest priority (no name when no row is active).
TopActiveNames(table) ==
    {r.provider_name : r \in {x \in table : /\ x.is_active = 1
                                             /\ \A y \in table :
                                                  y.is_active = 1 => y.priority <= x.priority}}

\* The implementation a provider name stands for.
Corresponds(kind, name) ==
    \/ name = "cloudinary" /\ kind = "CloudinaryService"
    \/ name = "s3" /\ kind = "S3Service"

\* The same, with the factory's fallback for names it has no implementation of.
CorrespondsOrDefault(kind, name) ==
    IF name \in {"cloudinary", "s3"} THEN Corresponds(kind, name)
    ELSE kind = "CloudinaryService"

\* C6: a getActiveService call made after another one returned, with no
\* reset() since, returns the very instance that call returned and issues no
\* configuration query; the first call after a reset() (made while no query
\* was in flight) issues a configuration query.
C6_CachedUntilReset ==
    [][\A p \in Procs :
         getActiveService_begin(p) =>
            /\ lastRet # Null =>
                  /\ ret' = [op |-> "getActive", status |-> "ok", inst |-> lastRet]
                  /\ queries' = queries
                  /\ pending' = pending
                  /\ instance' = lastRet
            /\ hist.phase = "cleared" =>
                  /\ queries' = queries + 1
                  /\ pending'[p].state # "none"]_vars

\* C6 witness: a second call has just returned the cached instance, one query
\* in all having been issued.
C6_Witness ==
    /\ ret.op = "getActive" /\ ret.inst # Null
    /\ lastRet = ret.inst /\ instance = ret.inst
    /\ queries = 1 /\ nextInst = 2 /\ InFlight = {}
    /\ hist.phase = "none"
    /\ \A p \in Procs : pc[p] = "idle"

C8_SelectsNamedImplementation ==
    [][\A p \in Procs :
         /\ (getActiveService_begin(p) /\ instance = Null /\ pending'[p].state = "rows"
                /\ TopActiveNames(storage_providers) # {}) =>
               /\ Len(pending'[p].rows) = 1
               /\ pending'[p].rows[1] \in TopActiveNames(storage_providers)
         /\ (getActiveService_end(p) /\ pending[p].state = "rows"
                /\ Len(pending[p].rows) > 0) =>
               /\ Corresponds(ret'.inst.kind, pending[p].rows[1])
               /\ instance' = ret'.inst]_vars

\* C8 amended: the row read is an active row of greatest priority (never an
\* inactive one); the implementation returned is the one its provider_name
\* names when that is cloudinary or s3, and CloudinaryService for any other
\* name; the returned instance is the cached one.
C8_SelectsTopActive ==
    [][\A p \in Procs :
         /\ (getActiveService_begin(p) /\ instance = Null /\ pending'[p].state = "rows"
                /\ TopActiveNames(storage_providers) # {}) =>
               /\ Len(pending'[p].rows) = 1
               /\ pending'[p].rows[1] \in TopActiveNames(storage_providers)
         /\ (getActiveService_end(p) /\ pending[p].state = "rows"
                /\ Len(pending[p].rows) > 0) =>
               /\ CorrespondsOrDefault(ret'.inst.kind, pending[p].rows[1])
               /\ instance' = ret'.inst]_vars

\* C8 witness: an inactive row has the greatest priority, and the call
\* returned the implementation of the active row below it.
C8_Witness ==
    /\ \E r \in storage_providers :
          /\ r.is_active = 0 /\ r.provider_name = "s3"
          /\ \A y \in storage_providers : y.priority <= r.priority /\ (y # r => y.priority < r.priority)
    /\ TopActiveNames(storage_providers) = {"cloudinary"}
    /\ ret.op = "getActive" /\ ret.inst.kind = "CloudinaryService"
    /\ instance = ret.inst /\ queries = 1 /\ nextInst = 2

----------------------------------------------------------------------------
(* Properties of extractPrimaryColor *)

\* the call has something to fail on: the buffer does not decode, stats()
\* rejects, or a channel is missing
ExtractionFails(image) == ~image.decodable \/ ~image.statsOk \/ Len(image.means) < 3

\* C11: extractPrimaryColor never throws, and whenever decoding or the channel
\* statistics fail it returns exactly '#000000'.
C11_NeverThrowsBlackOnFailure ==
    cResult # NoColor =>
       /\ ~cResult.threw
       /\ ExtractionFails(cImage) => cResult.color = Black

\* C11 witness: an undecodable buffer was answered '#000000'.
C11_Witness ==
    /\ ~cImage.decodable
    /\ cResult # NoColor /\ ~cResult.threw /\ cResult.color = Black

HexDigitSet == {HexDigits[i] : i \in 1..Len(HexDigits)}

\* C12: the color returned is '#' followed by exactly six lowercase
\* hexadecimal digits.
C12_SevenCharacterHexColor ==
    cResult # NoColor =>
       /\ Len(cResult.color) = 7
       /\ cResult.color[1] = "#"
       /\ \A i \in 2..Len(cResult.color) : cResult.color[i] \in HexDigitSet

----------------------------------------------------------------------------
(* Properties of resize *)

\* the fit policy of the call is the default one, left out or given as 'cover'
CoverRequested(args) == ~args.fit.given \/ args.fit.val = "cover"

\* C13: for every catalog entry and every decodable source, of any size and
\* aspect ratio, resize under fit 'cover' returns a variant of exactly the
\* width and height asked for.
C13_CoverGivesTargetSize ==
    (rResult # NoVariant /\ rSource.decodable /\ CoverRequested(rArgs)) =>
       /\ ~rResult.threw
       /\ rResult.width = rArgs.width
       /\ rResult.height = rArgs.height

\* C13 witness: a 1 x 1 source and a panoramic source came out at the target
\* size of a catalog entry under the default fit.
C13_Witness ==
    /\ rResult # NoVariant /\ ~rArgs.fit.given
    /\ <<rSource.width, rSource.height>> \in {<<1, 1>>, <<10000, 1000>>}
    /\ \E i \in 1..Len(RESOLUTIONS) :
         /\ rArgs.width = RESOLUTIONS[i].width /\ rArgs.height = RESOLUTIONS[i].height
         /\ rResult.width = RESOLUTIONS[i].width /\ rResult.height = RESOLUTIONS[i].height

\* C14: a call of resize on a decodable source asking for a format other than
\* jpeg, png and webp throws and returns no variant.
C14_UnsupportedFormatRejected ==
    (rResult # NoVariant /\ rSource.decodable
        /\ rArgs.format.given /\ rArgs.format.val \notin OutputFormats) =>
       rResult.threw

----------------------------------------------------------------------------
(* Properties of generateWithTimestamp and of S3Service.getUrl *)

\* C15: the slugs returned to two uploads differ, and so do the storage
\* filenames made from them.
C15_SlugsDistinct ==
    \A n, m \in Namers :
        (n # m /\ slugs[n].called /\ slugs[m].called) =>
           /\ slugs[n].slug # slugs[m].slug
           /\ \A k \in CoreUploads :
                 CoreFilename(slugs[n].slug, k) # CoreFilename(slugs[m].slug, k)

\* C16: the url S3Service.getUrl returned is the static url of the stored
\* object, and it is the url the call returns for every other options object.
C16_S3UrlIgnoresOptions ==
    uResult # NoUrl =>
       /\ uResult = S3Service_uploadUrl(uArgs.service, uArgs.publicId)
       /\ \A o \in UrlOptionSets :
             S3Service_getUrl(uArgs.service, uArgs.publicId, o) = uResult

\* C16 witness: a call asking for width, height, quality and format returned.
C16_Witness ==
    /\ uResult # NoUrl
    /\ Truthy(uArgs.options.width) /\ Truthy(uArgs.options.height)
    /\ Truthy(uArgs.options.quality) /\ uArgs.options.format.given

----------------------------------------------------------------------------
(* Properties of the catalog sweep and of the order of the uploads *)

\* C17: the variants generateAllResolutions returned to an upload are one per
\* catalog entry, in catalog order, whatever failed.
C17_OneVariantPerCatalogEntry ==
    \A u \in Uploads :
        calls[u].generateAll > 0 =>
           /\ Len(resolutions[u]) = Len(RESOLUTIONS)
           /\ \A i \in 1..Len(resolutions[u]) : resolutions[u][i].name = RESOLUTIONS[i].name

\* the upload has reached the sweep or a database write
PastCoreUploads(u) ==
    \/ pc[u] \in {"insert", "categories", "generate", "sweep", "respond"}
    \/ calls[u].generateAll > 0 \/ calls[u].sweepUploads > 0
    \/ wallpaperId[u] # 0
    \/ \E w \in wallpapers : w.id = wallpaperId[u]
    \/ response[u].status = 201

\* C18: the three core uploads are issued together, none being issued while
\* another has yet to be, and the upload reaches the sweep and the database
\* only once all three have succeeded.
C18_CoreUploadsBeforeSweep ==
    \A u \in Uploads :
        /\ (\E k \in CoreUploads : core[u][k] # "none") =>
              (\A k \in CoreUploads : core[u][k] # "none")
        /\ pc[u] = "awaitCore" => \A k \in CoreUploads : core[u][k] \in {"inflight", "ok"}
        /\ PastCoreUploads(u) => \A k \in CoreUploads : core[u][k] = "ok"

\* C18 witness: the three uploads are in flight at once; and an upload that
\* wrote its wallpaper row and began the sweep has all three stored.
C18_WitnessIssued ==
    \E u \in Uploads : pc[u] = "awaitCore" /\ \A k \in CoreUploads : core[u][k] = "inflight"

C18_Witness ==
    \E u \in Uploads :
        /\ calls[u].sweepUploads > 0
        /\ \E w \in wallpapers : w.id = wallpaperId[u]
        /\ \A k \in CoreUploads :
              /\ core[u][k] = "ok"
              /\ StoredObject(svc[u], CoreFolder(k), CoreFilename(SlugOf(req[u].title), k))
                    \in storage

----------------------------------------------------------------------------
(* Properties of the storage selector under overlapping calls *)

\* C19: a getActiveService call that starts after a reset() has returned is
\* never answered from the cache with a backend resolved from a configuration
\* query issued before that reset().
C19_ResetForcesReresolution ==
    [][\A p \in Procs :
         (getActiveService_begin(p) /\ instance # Null) => ~stale.cached]_vars

Constructed(inst) == inst # Null /\ inst.id > 0 /\ inst.kind \in {"CloudinaryService", "S3Service"}

\* C20: every getActiveService call that resolves the backend itself returns a
\* constructed service, a new object of its own, and leaves it in the cache;
\* so once no call is in flight the cache holds the instance returned last,
\* and a call made then, no reset() having intervened, returns that instance
\* without a query.
C20_ConcurrentCallsConstructed ==
    [][\A p \in Procs :
         /\ getActiveService_end(p) =>
               /\ Constructed(ret'.inst)
               /\ ret'.inst.id >= nextInst
               /\ instance' = ret'.inst
               /\ InFlight = {p} => (instance' # Null /\ lastRet' = instance')
         /\ (getActiveService_begin(p) /\ InFlight = {} /\ lastRet # Null) =>
               /\ Constructed(ret'.inst)
               /\ ret'.inst = lastRet /\ instance' = lastRet
               /\ queries' = queries /\ pending' = pending]_vars

\* C20 witness: two calls started on the empty cache, each issued a query and
\* each built its own instance; the cache holds the one built last.
C20_Witness ==
    /\ queries = 2 /\ nextInst = 3 /\ InFlight = {}
    /\ hist = NoHist /\ stale = NoStale
    /\ ret.op = "getActive" /\ ret.inst.id = 2
    /\ instance = ret.inst /\ lastRet = ret.inst

----------------------------------------------------------------------------
(* Properties of the sweep, of the rows written and of the stored objects *)

\* the catalog names without those of `failing`, in catalog order
CatalogNamesWithout(failing) == SelectSeq(CatalogNames, LAMBDA n : n \notin failing)

\* C21: the variants generateAllResolutions returned are the catalog entries
\* whose resize did not fail, in catalog order; a failed resize never ends the
\* request, and an upload that ended with status 201 recorded exactly those
\* entries in that order.
C21_FailedGenerationSkipped ==
    \A u \in Uploads :
        calls[u].generateAll > 0 =>
           /\ [i \in 1..Len(resolutions[u]) |-> resolutions[u][i].name]
                 = CatalogNamesWithout(calls[u].genFailed)
           /\ pc[u] \in {"sweep", "respond", "done"}
           /\ (pc[u] = "done" /\ response[u].status = 500) =>
                 \/ response[u].error = <<"bulkCreate failed">>
                 \/ response[u].error = <<"findById failed">>
                 \/ \E n \in calls[u].sweepFailed : response[u].error = <<"upload failed", n>>
           /\ response[u].status = 201 =>
                 NamesOf(SelectSeq(RowsOf(wallpaperId[u]), LAMBDA r : r.is_original = 0))
                    = CatalogNamesWithout(calls[u].genFailed)

\* C21 witness: the resize of one catalog entry failed and the upload ended
\* with status 201 and eight catalog rows.
C21_Witness ==
    \E u \in Uploads :
        /\ Cardinality(calls[u].genFailed) = 1
        /\ pc[u] = "done" /\ response[u].status = 201
        /\ Len(RowsOf(wallpaperId[u])) = 9

\* C22: no step of an upload removes an object from storage: whatever was
\* stored stays stored, through every failure of a later upload or of a
\* database write.
C22_NoStorageDelete ==
    [][storage \subseteq storage']_vars

\* C22 witness: the insert of the wallpaper row failed after the three core
\* uploads; the request ended with status 500, the three objects are stored and
\* no wallpaper row exists.
C22_Witness ==
    \E u \in Uploads :
        /\ pc[u] = "done" /\ response[u] = Failed(<<"insert failed">>)
        /\ \A k \in CoreUploads :
              StoredObject(svc[u], CoreFolder(k), CoreFilename(SlugOf(req[u].title), k))
                 \in storage
        /\ wallpapers = {}

\* C23: the storage_provider_id of the wallpaper row an upload wrote is the id
\* of a storage_providers row naming the implementation that upload used.
C23_ProviderIdOfBackendUsed ==
    \A u \in Uploads : \A w \in wallpapers :
        w.id = wallpaperId[u] =>
           \E r \in storage_providers :
              /\ r.id = w.storage_provider_id
              /\ createService(r.provider_name) = svc[u].kind

\* C24: after an upload that ended with status 201 exactly one resolution row
\* of its wallpaper has is_original = 1; it is named 'Original', has the url
\* of the wallpaper's original_url and the width and height of the source;
\* the other rows are the uploaded catalog variants, with is_original = 0.
C24_OneOriginalRow ==
    \A u \in Uploads :
        (pc[u] = "done" /\ response[u].status = 201) =>
           LET rows == RowsOf(wallpaperId[u])
               originals == {i \in 1..Len(rows) : rows[i].is_original = 1}
               w == CHOOSE x \in wallpapers : x.id = wallpaperId[u]
           IN  /\ Cardinality(originals) = 1
               /\ \A i \in originals :
                     /\ rows[i].resolution_name = "Original"
                     /\ rows[i].url = w.original_url
                     /\ rows[i].width = req[u].image.width
                     /\ rows[i].height = req[u].image.height
               /\ \A i \in (1..Len(rows)) \ originals :
                     rows[i].resolution_name \in ResolutionNames \ calls[u].genFailed
               /\ Len(rows) = (Len(RESOLUTIONS) - Cardinality(calls[u].genFailed)) + 1
               /\ Len(rows) = Len(resolutions[u]) + 1

\* C24 witness: an upload ended with status 201 and ten rows, the last one
\* being the Original row of a 4000 x 3000 source.
C24_Witness ==
    \E u \in Uploads :
        /\ pc[u] = "done" /\ response[u].status = 201
        /\ Len(RowsOf(wallpaperId[u])) = 10
        /\ RowsOf(wallpaperId[u])[10].is_original = 1
        /\ RowsOf(wallpaperId[u])[10].width = 4000

\* the storage locations an upload writes to: the three core assets and one
\* per catalog entry
CoreLocations(u) ==
    {StoredObject(svc[u], CoreFolder(k), CoreFilename(SlugOf(req[u].title), k)) :
        k \in CoreUploads}

SweepLocations(u) ==
    {StoredObject(svc[u], SweepFolder, SweepFilename(SlugOf(req[u].title), n)) :
        n \in ResolutionNames}

\* C30: the locations of one upload are pairwise distinct, twelve in all, the
\* catalog ones apart from the core ones; so the number of stored objects is
\* the number of its uploads that succeeded, none having replaced another.
C30_LocationsDistinct ==
    \A u \in Uploads :
        svc[u] # Null =>
           /\ Cardinality(CoreLocations(u)) = 3
           /\ Cardinality(SweepLocations(u)) = Len(RESOLUTIONS)
           /\ CoreLocations(u) \cap SweepLocations(u) = {}
           /\ Cardinality(storage)
                 = Cardinality({k \in CoreUploads : core[u][k] = "ok"})
                     + (calls[u].sweepUploads - Cardinality(calls[u].sweepFailed))

\* C30 witness: an upload ended with status 201, every resize and upload
\* having succeeded, and twelve objects are stored.
C30_Witness ==
    \E u \in Uploads :
        /\ pc[u] = "done" /\ response[u].status = 201
        /\ calls[u].genFailed = {} /\ calls[u].sweepUploads = 9
        /\ Cardinality(storage) = 12

----------------------------------------------------------------------------
(* Properties of the favorite, download, user and route handlers *)

\* the favorites rows of a wallpaper
FavoritesOf(id) == {f \in favorites : f.wallpaper_id = id}

\* C25: whenever no favorite request is in progress, the favorite_count of
\* every wallpaper is the number of its favorites rows and is not negative;
\* a duplicate add and a remove of a favorite that does not exist are
\* answered (the first with an error status, the second with 200) and the
\* count is what it was.
C25_FavoriteCountMatchesRows ==
    (\A s \in FavSessions : FavIdle(s)) =>
        \A w \in wallpapers :
            /\ w.favorite_count = Cardinality(FavoritesOf(w.id))
            /\ w.favorite_count >= 0

\* the downloads rows of a wallpaper
DownloadsOf(id) == {r \in downloads : r.wallpaper_id = id}

\* C26: once every download request is answered, the download_count of
\* every wallpaper (0 at the start) is the number of downloads rows created
\* for it; a request answered 400 or 404 created no downloads row.
C26_DownloadCountMatchesRows ==
    /\ (\A d \in DlSessions : DlIdle(d)) =>
          \A w \in wallpapers : w.download_count = Cardinality(DownloadsOf(w.id))
    /\ \A d \in DlSessions :
          (dl[d].stage = "done" /\ dl[d].status \in {400, 404}) => dl[d].row = 0

\* the owner accounts
OwnerRows == {u \in users : u.is_owner = 1}

\* C27: no step of a create, update or delete request changes a row with
\* is_owner = 1 or adds one (so no owner field changes, no owner is
\* deactivated and no user is created as owner), and a delete request whose
\* :id is the requester's own id never reaches UserModel.delete: it is
\* answered 403 (404 when the account does not exist).
C27_OwnerProtected ==
    /\ [](\A s \in AdminSessions :
            (adm[s].op = "delete" /\ adm[s].actor = adm[s].id) =>
               /\ adm[s].stage = "done"
               /\ adm[s].status \in {403, 404})
    /\ [][OwnerRows' = OwnerRows]_vars

\* an update of the owner and a delete of the requester's own account were
\* both refused, after a user was created from a body asking for is_owner = 1
C27_Witness ==
    /\ \E u \in users : u.id = 3 /\ u.is_owner = 0
    /\ \E s, t \in AdminSessions :
          /\ adm[s].op = "update" /\ adm[s].id = 1 /\ adm[s].body.is_active = Some(0)
          /\ adm[s].status = 403
          /\ adm[t].op = "delete" /\ adm[t].actor = 2 /\ adm[t].id = 2
          /\ adm[t].status = 403
    /\ OwnerRows = {OwnerRow}

\* the route handler of the request has run
HandlerRan(g) ==
    \E i \in 1..Len(gate[g].ran) : gate[g].ran[i] = HandlerOf(gate[g].route)

\* the request carries a token that does not verify, or one of a non-admin
InvalidToken(g) == HasToken(gate[g].header) /\ ~Verifies(gate[g].header[2])
NonAdminToken(g) ==
    /\ HasToken(gate[g].header)
    /\ Verifies(gate[g].header[2])
    /\ gate[g].header[2].userType # ADMIN

\* C28: on the routes guarded by authAdmin the handler has run only if
\* authenticateToken ran first and accepted a valid access token and
\* requireAdmin ran second and found userType = ADMIN; an answered request
\* without a token has status 401, one with an invalid token or a non-admin
\* token has status 403, nothing after the refusing middleware ran, and the
\* refusing step changes no table.
C28_AdminGate ==
    /\ [](\A g \in GateRequests :
            gate[g].index > 0 =>
               /\ HandlerRan(g) =>
                     /\ SubSeq(gate[g].ran, 1, 2) = authAdmin
                     /\ HasToken(gate[g].header)
                     /\ Verifies(gate[g].header[2])
                     /\ gate[g].header[2].userType = ADMIN
                     /\ gate[g].user = verifyAccessToken(gate[g].header[2])
               /\ (gate[g].status # 0 /\ ~HasToken(gate[g].header)) =>
                     gate[g].status = 401 /\ gate[g].ran = <<"authenticateToken">>
               /\ (gate[g].status # 0 /\ InvalidToken(g)) =>
                     gate[g].status = 403 /\ gate[g].ran = <<"authenticateToken">>
               /\ (gate[g].status # 0 /\ NonAdminToken(g)) =>
                     gate[g].status = 403 /\ gate[g].ran = authAdmin)
    /\ [][\A g \in GateRequests :
            (gate'[g] # gate[g] /\ gate'[g].status \in {401, 403}) =>
               UNCHANGED <<wallpapers, wallpaper_categories, wallpaper_resolutions,
                           favorites, downloads, users>>]_vars

\* an admin's DELETE went through the chain and deactivated wallpaper 1
\* while a registered user's valid token was refused by requireAdmin
C28_Witness ==
    /\ gate["g1"].route = "DELETE /:id"
    /\ gate["g1"].ran = authAdmin \o <<"delete">>
    /\ gate["g1"].status = 200
    /\ \E w \in wallpapers : w.id = 1 /\ w.is_active = 0
    /\ NonAdminToken("g2")
    /\ gate["g2"].status = 403

====
